---- MODULE Spec2Model ----
(***************************************************************************)
(* Model of the vocabulary-flashcard backend.                              *)
(*                                                                         *)
(* Eight specifications share this module:                                  *)
(*   Spec           the Deck and Card services (DeckService, CardService)  *)
(*                  run by concurrent requests; every action is one        *)
(*                  database round trip, which is where a request can be   *)
(*                  suspended.                                             *)
(*   SpecGateway    the persistence gateway (withRetry, ensureConnection)  *)
(*                  and the way each service call reaches the database.    *)
(*   SpecAuth       the Auth service and the authenticateToken middleware  *)
(*                  run by concurrent requests; database calls succeed     *)
(*                  here, their failures are the subject of SpecGateway.   *)
(*   SpecKeepAlive  the keep-alive timer of the gateway, for each version  *)
(*                  of the gateway module found in the repository.         *)
(*   SpecStats      the statistics of a deck (getDeckStats, getCardStats), *)
(*                  with the percentage computed in double arithmetic.     *)
(*   SpecStudy      the query of getStudyCards on every small Card table.  *)
(*   SpecList       the paginated list operations.                         *)
(*   SpecShared     the one PrismaClient used by concurrent requests, each *)
(*                  with its own withRetry and ensureConnection.           *)
(***************************************************************************)
EXTENDS Integers, Sequences, FiniteSets, TLC

\* ---------------------------------------------------------------------------
\* Bounds
\* ---------------------------------------------------------------------------
MaxDecks == 2
MaxCards == 2
MaxOps == 4
MaxRetries == 3
MaxTicks == 3
MaxTotal == 40
MaxStudy == 3
MaxLimit == 3
MaxRows == 3
MaxPage == 3
MaxReqs == 2

Procs == {"p1", "p2"}
Users == {"u1", "u2"}

\* ---------------------------------------------------------------------------
\* State of the Deck / Card services
\* ---------------------------------------------------------------------------
VARIABLES
  decks,        \* Deck table: id -> [name, description, userId, cardCount]
  cards,        \* Card table: id -> [frontText, backText, memorized, deckId]
  nextDeckId,   \* ids are generated fresh and never reused
  nextCardId,
  proc,         \* per request: position in the service method and its locals
  ret,          \* the response produced by the step just taken (NoRet if none)
  nops          \* number of service calls started so far

svcVars == <<decks, cards, nextDeckId, nextCardId, proc, ret, nops>>

\* ---------------------------------------------------------------------------
\* State of the persistence gateway
\* ---------------------------------------------------------------------------
VARIABLES
  gw,           \* the database call in progress (or the last one finished)
  ens,          \* the ensureConnection call in progress (or the last one finished)
  connected     \* whether the shared client holds a connection

gwVars == <<gw, ens, connected>>

\* ---------------------------------------------------------------------------
\* State of the Auth service and of the authentication middleware
\* ---------------------------------------------------------------------------
VARIABLES
  users,        \* User table: id -> [email, password, name]
  areq,         \* per request: position in the auth method and its locals
  aret,         \* the response produced by the step just taken (NoARet if none)
  aops          \* number of auth calls started so far

authVars == <<users, areq, aret, aops>>

\* ---------------------------------------------------------------------------
\* State of the keep-alive timer
\* ---------------------------------------------------------------------------
VARIABLES
  build,        \* which version of the gateway module is loaded
  clock,        \* Date.now(), in minutes since startKeepAlive
  lastActivity, \* the gateway's lastActivity (minutes)
  lastDbOp,     \* when a service last called the database (-1: never)
  timer,        \* keepAliveInterval: [active, fired, last]
  cb,           \* the timer callback of the latest tick
  life          \* the module's life: warmup, running, exited, and what it logged

kaVars == <<build, clock, lastActivity, lastDbOp, timer, cb, life>>

\* ---------------------------------------------------------------------------
\* State of the computations made on rows already fetched
\* ---------------------------------------------------------------------------
VARIABLES
  stats,        \* a statistics computation: the rows fetched and the result returned
  study,        \* a getStudyCards call: the Card table, the options, the result
  listing,      \* a list call: the table, page and limit, the items and the total
  shared        \* the shared client: whether it is connected, and each request's position on it

fnVars == <<stats, study, listing, shared>>

\* what the actions of one part of the system leave alone
notSvcVars == <<gwVars, authVars, kaVars, fnVars>>

notGwVars == <<svcVars, authVars, kaVars, fnVars>>

notAuthVars == <<svcVars, gwVars, kaVars, fnVars>>

notKaVars == <<svcVars, authVars, fnVars>>

notFnVars == <<svcVars, gwVars, authVars, kaVars>>

\* String.prototype.trim on the texts the model uses
Trim(s) ==
  CASE s = " a " -> "a"
    [] s = " c " -> "c"
    [] s = " n1 " -> "n1"
    [] s = " d " -> "d"
    [] s = "  " -> ""
    [] s = " A " -> "A"
    [] OTHER -> s

\* request bodies
CardInputs ==
  { [frontText |-> " a ", backText |-> "b", hasMemorized |-> FALSE, memorized |-> FALSE],
    [frontText |-> "b", backText |-> " a ", hasMemorized |-> TRUE, memorized |-> TRUE] }

CardUpdates ==
  { [frontText |-> " c ", backText |-> "", hasMemorized |-> FALSE, memorized |-> FALSE],
    [frontText |-> "", backText |-> "", hasMemorized |-> TRUE, memorized |-> TRUE] }

DeckInputs ==
  { [name |-> " n1 ", hasDescription |-> FALSE, description |-> ""],
    [name |-> "n2", hasDescription |-> TRUE, description |-> " d "] }

DeckUpdates ==
  { [name |-> "n2", hasDescription |-> FALSE, description |-> ""],
    [name |-> "", hasDescription |-> TRUE, description |-> "  "] }

BulkInputs ==
  { [cardIds |-> {1, 2}, memorized |-> TRUE],
    [cardIds |-> {2, 3}, memorized |-> FALSE] }

NoData == [frontText |-> "", backText |-> "", hasMemorized |-> FALSE, memorized |-> FALSE,
           name |-> "", hasDescription |-> FALSE, description |-> "", cardIds |-> {}]

CardData(d) == [NoData EXCEPT !.frontText = d.frontText, !.backText = d.backText,
                              !.hasMemorized = d.hasMemorized, !.memorized = d.memorized]

DeckData(d) == [NoData EXCEPT !.name = d.name, !.hasDescription = d.hasDescription,
                              !.description = d.description]

Idle == [pc |-> "idle", op |-> "none", userId |-> "none", deckId |-> 0, cardId |-> 0,
         data |-> NoData, memorized |-> FALSE, cardCount |-> 0]

NoRet == [op |-> "none", userId |-> "none", deckId |-> 0, cardId |-> 0, cardIds |-> {},
          status |-> "none", decks |-> {}, cards |-> {}, count |-> 0]

DeckIds == 1..MaxDecks
CardIds == 1..MaxCards

\* rows as they are returned to the caller
DeckRow(id) == [id |-> id, name |-> decks[id].name, description |-> decks[id].description,
                userId |-> decks[id].userId, cardCount |-> decks[id].cardCount]

CardRow(id) == [id |-> id, frontText |-> cards[id].frontText, backText |-> cards[id].backText,
                memorized |-> cards[id].memorized, deckId |-> cards[id].deckId]

\* a deck lookup by id alone
deckFindFirst_byId(deckId, userId) ==
  deckId \in DOMAIN decks

\* prisma.deck.findFirst({ where: { id: deckId, userId } })
deckFindFirst(deckId, userId) ==
  deckId \in DOMAIN decks /\ decks[deckId].userId = userId

\* the card lookup without the ownership filter
cardFindFirst_anyOwner(cardId, userId) ==
  /\ cardId \in DOMAIN cards
  /\ cards[cardId].deckId \in DOMAIN decks

\* prisma.card.findFirst({ where: { id: cardId, deck: { userId } } })
cardFindFirst(cardId, userId) ==
  /\ cardId \in DOMAIN cards
  /\ cards[cardId].deckId \in DOMAIN decks
  /\ decks[cards[cardId].deckId].userId = userId

\* the Card rows of a deck
cardsOf(deckId) == {c \in DOMAIN cards : cards[c].deckId = deckId}

\* prisma.card.count({ where: { deckId } })
cardCountOf(deckId) == Cardinality(cardsOf(deckId))

Without(f, ids) == [i \in DOMAIN f \ ids |-> f[i]]

\* a response
Response(p, status, ds, cs, n) ==
  [op |-> proc[p].op, userId |-> proc[p].userId, deckId |-> proc[p].deckId,
   cardId |-> proc[p].cardId, cardIds |-> proc[p].data.cardIds,
   status |-> status, decks |-> ds, cards |-> cs, count |-> n]

\* a request enters a service method (its first database call is part of the step)
Begin(p, op, userId, deckId, cardId, data) ==
  [Idle EXCEPT !.op = op, !.userId = userId, !.deckId = deckId, !.cardId = cardId,
               !.data = data]

\* no response is on its way out: the controller sends the response in the turn of
\* the event loop in which the service method settles
Quiet == ret = NoRet

\* a new request takes the first free slot
CanStart(p) ==
  /\ Quiet
  /\ proc[p].pc = "idle"
  /\ p = "p1" \/ proc["p1"].pc # "idle"
  /\ nops < MaxOps

\* the request in slot p is at the database call named pc
At(p, pc) == Quiet /\ proc[p].pc = pc

\* the first step of a method fails: the error goes to the caller
FailFirst(p, b, status) ==
  /\ proc' = [proc EXCEPT ![p] = Idle]
  /\ ret' = [NoRet EXCEPT !.op = b.op, !.userId = b.userId, !.deckId = b.deckId,
                          !.cardId = b.cardId, !.cardIds = b.data.cardIds,
                          !.status = status]

\* a later step ends the method
Finish(p, status, ds, cs, n) ==
  /\ proc' = [proc EXCEPT ![p] = Idle]
  /\ ret' = Response(p, status, ds, cs, n)

Goto(p, b, pc) ==
  /\ proc' = [proc EXCEPT ![p] = [b EXCEPT !.pc = pc]]
  /\ ret' = NoRet

SvcInit ==
  /\ decks = << >>
  /\ cards = << >>
  /\ nextDeckId = 1
  /\ nextCardId = 1
  /\ proc = [p \in Procs |-> Idle]
  /\ ret = NoRet
  /\ nops = 0

\* ---------------------------------------------------------------------------
\* DeckService
\* ---------------------------------------------------------------------------

\* DeckService.createDeck: one prisma.deck.create
createDeck(p, userId, data) ==
  /\ CanStart(p)
  /\ userId = "u1" \/ nextDeckId > 1      \* the user who creates the first deck is called u1
  /\ nextDeckId <= MaxDecks
  /\ LET row == [name |-> Trim(data.name),
                 description |-> Trim(data.description),
                 userId |-> userId,
                 cardCount |-> 0]
     IN /\ decks' = decks @@ (nextDeckId :> row)
        /\ ret' = [NoRet EXCEPT !.op = "createDeck", !.userId = userId,
                                !.deckId = nextDeckId, !.status = "ok",
                                !.decks = {[id |-> nextDeckId, name |-> row.name,
                                            description |-> row.description,
                                            userId |-> userId, cardCount |-> 0]}]
  /\ nextDeckId' = nextDeckId + 1
  /\ nops' = nops + 1
  /\ UNCHANGED <<cards, nextCardId, proc>>
  /\ UNCHANGED notSvcVars

\* DeckService.getDeckById: one prisma.deck.findFirst including the cards
getDeckById(p, userId, deckId) ==
  /\ CanStart(p)
  /\ LET b == Begin(p, "getDeckById", userId, deckId, 0, NoData)
     IN IF deckFindFirst(deckId, userId)
        THEN /\ proc' = proc
             /\ ret' = [NoRet EXCEPT !.op = b.op, !.userId = userId,
                                     !.deckId = deckId, !.status = "ok",
                                     !.decks = {DeckRow(deckId)},
                                     !.cards = {CardRow(c) : c \in cardsOf(deckId)},
                                     !.count = cardCountOf(deckId)]
        ELSE FailFirst(p, b, "Deck not found")
  /\ nops' = nops + 1
  /\ UNCHANGED <<decks, cards, nextDeckId, nextCardId>>
  /\ UNCHANGED notSvcVars

\* DeckService.getDeckStats: one prisma.deck.findFirst including the cards
getDeckStats(p, userId, deckId) ==
  /\ CanStart(p)
  /\ LET b == Begin(p, "getDeckStats", userId, deckId, 0, NoData)
     IN IF deckFindFirst(deckId, userId)
        THEN /\ proc' = proc
             /\ ret' = [NoRet EXCEPT !.op = b.op, !.userId = userId,
                                     !.deckId = deckId, !.status = "ok",
                                     !.decks = {DeckRow(deckId)},
                                     !.count = cardCountOf(deckId)]
        ELSE FailFirst(p, b, "Deck not found")
  /\ nops' = nops + 1
  /\ UNCHANGED <<decks, cards, nextDeckId, nextCardId>>
  /\ UNCHANGED notSvcVars

\* DeckService.updateDeck, ownership lookup
updateDeck_findFirst(p, userId, deckId, data) ==
  /\ CanStart(p)
  /\ LET b == Begin(p, "updateDeck", userId, deckId, 0, DeckData(data))
     IN IF deckFindFirst(deckId, userId)
        THEN Goto(p, b, "updateDeck_update")
        ELSE FailFirst(p, b, "Deck not found")
  /\ nops' = nops + 1
  /\ UNCHANGED <<decks, cards, nextDeckId, nextCardId>>
  /\ UNCHANGED notSvcVars

\* the data clause of updateDeck's prisma.deck.update
updateDeckRow(row, data) ==
  [row EXCEPT !.name = IF data.name # "" THEN Trim(data.name) ELSE @,
              !.description = IF data.hasDescription THEN Trim(data.description) ELSE @]

\* DeckService.updateDeck, prisma.deck.update({ where: { id } })
updateDeck_update(p) ==
  /\ At(p, "updateDeck_update")
  /\ LET d == proc[p].deckId
     IN IF d \in DOMAIN decks
        THEN /\ decks' = [decks EXCEPT ![d] = updateDeckRow(@, proc[p].data)]
             /\ Finish(p, "ok",
                       {[id |-> d, name |-> decks'[d].name,
                         description |-> decks'[d].description,
                         userId |-> decks'[d].userId, cardCount |-> decks'[d].cardCount]},
                       {}, cardCountOf(d))
        ELSE /\ decks' = decks
             /\ Finish(p, "P2025", {}, {}, 0)
  /\ UNCHANGED <<cards, nextDeckId, nextCardId, nops>>
  /\ UNCHANGED notSvcVars

\* DeckService.deleteDeck, ownership lookup
deleteDeck_findFirst(p, userId, deckId) ==
  /\ CanStart(p)
  /\ LET b == Begin(p, "deleteDeck", userId, deckId, 0, NoData)
     IN IF deckFindFirst(deckId, userId)
        THEN Goto(p, b, "deleteDeck_delete")
        ELSE FailFirst(p, b, "Deck not found")
  /\ nops' = nops + 1
  /\ UNCHANGED <<decks, cards, nextDeckId, nextCardId>>
  /\ UNCHANGED notSvcVars

\* DeckService.deleteDeck, prisma.deck.delete; the deck's cards go with it
deleteDeck_delete(p) ==
  /\ At(p, "deleteDeck_delete")
  /\ LET d == proc[p].deckId
     IN IF d \in DOMAIN decks
        THEN /\ decks' = Without(decks, {d})
             /\ cards' = Without(cards, cardsOf(d))
             /\ Finish(p, "ok", {}, {}, 0)
        ELSE /\ UNCHANGED <<decks, cards>>
             /\ Finish(p, "P2025", {}, {}, 0)
  /\ UNCHANGED <<nextDeckId, nextCardId, nops>>
  /\ UNCHANGED notSvcVars

\* ---------------------------------------------------------------------------
\* CardService
\* ---------------------------------------------------------------------------

\* a fresh card id is left for every createCard that may still insert
CardIdLeft ==
  nextCardId + Cardinality({q \in Procs : proc[q].pc = "createCard_create"}) <= MaxCards

\* CardService.createCard, ownership lookup of the deck
createCard_findFirst(p, userId, deckId, data) ==
  /\ CanStart(p)
  /\ CardIdLeft
  /\ LET b == Begin(p, "createCard", userId, deckId, 0, CardData(data))
     IN IF deckFindFirst(deckId, userId)
        THEN Goto(p, b, "createCard_create")
        ELSE FailFirst(p, b, "Deck not found")
  /\ nops' = nops + 1
  /\ UNCHANGED <<decks, cards, nextDeckId, nextCardId>>
  /\ UNCHANGED notSvcVars

\* a Card table without the foreign key
deckForeignKey_none(deckId) == TRUE

\* the foreign key of Card.deckId: the deck row must exist when the card is inserted
deckForeignKey(deckId) == deckId \in DOMAIN decks

\* CardService.createCard, prisma.card.create (the deckId foreign key must resolve)
createCard_create(p) ==
  /\ At(p, "createCard_create")
  /\ LET d == proc[p].deckId
         row == [frontText |-> Trim(proc[p].data.frontText),
                 backText |-> Trim(proc[p].data.backText),
                 memorized |-> IF proc[p].data.hasMemorized
                               THEN proc[p].data.memorized ELSE FALSE,
                 deckId |-> d]
     IN IF deckForeignKey(d)
        THEN /\ cards' = cards @@ (nextCardId :> row)
             /\ nextCardId' = nextCardId + 1
             /\ Goto(p, [proc[p] EXCEPT !.cardId = nextCardId, !.memorized = row.memorized],
                     "updateDeckCardCount_count")
        ELSE /\ UNCHANGED <<cards, nextCardId>>
             /\ Finish(p, "P2003", {}, {}, 0)
  /\ UNCHANGED <<decks, nextDeckId, nops>>
  /\ UNCHANGED notSvcVars

\* CardService.updateDeckCardCount, prisma.card.count
updateDeckCardCount_count(p) ==
  /\ At(p, "updateDeckCardCount_count")
  /\ Goto(p, [proc[p] EXCEPT !.cardCount = cardCountOf(proc[p].deckId)],
          "updateDeckCardCount_update")
  /\ UNCHANGED <<decks, cards, nextDeckId, nextCardId, nops>>
  /\ UNCHANGED notSvcVars

\* CardService.updateDeckCardCount, prisma.deck.update; then the caller returns:
\* createCard returns the card it created, deleteCard returns nothing
updateDeckCardCount_update(p) ==
  /\ At(p, "updateDeckCardCount_update")
  /\ LET d == proc[p].deckId
         c == proc[p].cardId
     IN IF d \in DOMAIN decks
        THEN /\ decks' = [decks EXCEPT ![d].cardCount = proc[p].cardCount]
             /\ IF proc[p].op = "createCard"
                THEN Finish(p, "ok", {},
                            {[id |-> c, frontText |-> Trim(proc[p].data.frontText),
                              backText |-> Trim(proc[p].data.backText),
                              memorized |-> proc[p].memorized, deckId |-> d]}, 0)
                ELSE Finish(p, "ok", {}, {}, 0)
        ELSE /\ decks' = decks
             /\ Finish(p, "P2025", {}, {}, 0)
  /\ UNCHANGED <<cards, nextDeckId, nextCardId, nops>>
  /\ UNCHANGED notSvcVars

\* CardService.getDeckCards: ownership lookup of the deck
getDeckCards_findFirst(p, userId, deckId) ==
  /\ CanStart(p)
  /\ LET b == Begin(p, "getDeckCards", userId, deckId, 0, NoData)
     IN IF deckFindFirst(deckId, userId)
        THEN Goto(p, b, "getDeckCards_findMany")
        ELSE FailFirst(p, b, "Deck not found")
  /\ nops' = nops + 1
  /\ UNCHANGED <<decks, cards, nextDeckId, nextCardId>>
  /\ UNCHANGED notSvcVars

\* CardService.getDeckCards: prisma.card.findMany and prisma.card.count (default options)
getDeckCards_findMany(p) ==
  /\ At(p, "getDeckCards_findMany")
  /\ Finish(p, "ok", {}, {CardRow(c) : c \in cardsOf(proc[p].deckId)},
            cardCountOf(proc[p].deckId))
  /\ UNCHANGED <<decks, cards, nextDeckId, nextCardId, nops>>
  /\ UNCHANGED notSvcVars

\* CardService.getStudyCards: ownership lookup of the deck
getStudyCards_findFirst(p, userId, deckId) ==
  /\ CanStart(p)
  /\ LET b == Begin(p, "getStudyCards", userId, deckId, 0, NoData)
     IN IF deckFindFirst(deckId, userId)
        THEN Goto(p, b, "getStudyCards_findMany")
        ELSE FailFirst(p, b, "Deck not found")
  /\ nops' = nops + 1
  /\ UNCHANGED <<decks, cards, nextDeckId, nextCardId>>
  /\ UNCHANGED notSvcVars

\* CardService.getStudyCards: prisma.card.findMany (default options)
getStudyCards_findMany(p) ==
  /\ At(p, "getStudyCards_findMany")
  /\ Finish(p, "ok", {}, {CardRow(c) : c \in cardsOf(proc[p].deckId)}, 0)
  /\ UNCHANGED <<decks, cards, nextDeckId, nextCardId, nops>>
  /\ UNCHANGED notSvcVars

\* CardService.getCardStats: ownership lookup of the deck
getCardStats_findFirst(p, userId, deckId) ==
  /\ CanStart(p)
  /\ LET b == Begin(p, "getCardStats", userId, deckId, 0, NoData)
     IN IF deckFindFirst(deckId, userId)
        THEN Goto(p, b, "getCardStats_groupBy")
        ELSE FailFirst(p, b, "Deck not found")
  /\ nops' = nops + 1
  /\ UNCHANGED <<decks, cards, nextDeckId, nextCardId>>
  /\ UNCHANGED notSvcVars

\* CardService.getCardStats: prisma.card.groupBy; totalCards is the sum of the groups
getCardStats_groupBy(p) ==
  /\ At(p, "getCardStats_groupBy")
  /\ Finish(p, "ok", {}, {}, cardCountOf(proc[p].deckId))
  /\ UNCHANGED <<decks, cards, nextDeckId, nextCardId, nops>>
  /\ UNCHANGED notSvcVars

\* CardService.bulkUpdateMemorized: ownership lookup of the deck
bulkUpdateMemorized_findFirst(p, userId, deckId, cardIds, memorized) ==
  /\ CanStart(p)
  /\ LET b == Begin(p, "bulkUpdateMemorized", userId, deckId, 0,
                    [NoData EXCEPT !.cardIds = cardIds, !.memorized = memorized])
     IN IF deckFindFirst(deckId, userId)
        THEN Goto(p, b, "bulkUpdateMemorized_updateMany")
        ELSE FailFirst(p, b, "Deck not found")
  /\ nops' = nops + 1
  /\ UNCHANGED <<decks, cards, nextDeckId, nextCardId>>
  /\ UNCHANGED notSvcVars

\* an updateMany that selects by id only
updateManyWhere_idOnly(cardIds, deckId) ==
  {c \in DOMAIN cards : c \in cardIds}

\* the where clause of bulkUpdateMemorized's updateMany: { id: { in: cardIds }, deckId }
updateManyWhere(cardIds, deckId) ==
  {c \in DOMAIN cards : c \in cardIds /\ cards[c].deckId = deckId}

\* CardService.bulkUpdateMemorized: prisma.card.updateMany({ where: { id in, deckId } })
bulkUpdateMemorized_updateMany(p) ==
  /\ At(p, "bulkUpdateMemorized_updateMany")
  /\ LET hit == updateManyWhere(proc[p].data.cardIds, proc[p].deckId)
     IN /\ cards' = [c \in DOMAIN cards |->
                       IF c \in hit THEN [cards[c] EXCEPT !.memorized = proc[p].data.memorized]
                       ELSE cards[c]]
        /\ Finish(p, "ok", {}, {}, Cardinality(hit))
  /\ UNCHANGED <<decks, nextDeckId, nextCardId, nops>>
  /\ UNCHANGED notSvcVars

\* CardService.getCardById: one prisma.card.findFirst through the owning deck
getCardById(p, userId, cardId) ==
  /\ CanStart(p)
  /\ LET b == Begin(p, "getCardById", userId, 0, cardId, NoData)
     IN IF cardFindFirst(cardId, userId)
        THEN /\ proc' = proc
             /\ ret' = [NoRet EXCEPT !.op = b.op, !.userId = userId,
                                     !.cardId = cardId, !.status = "ok",
                                     !.cards = {CardRow(cardId)}]
        ELSE FailFirst(p, b, "Card not found")
  /\ nops' = nops + 1
  /\ UNCHANGED <<decks, cards, nextDeckId, nextCardId>>
  /\ UNCHANGED notSvcVars

\* CardService.updateCard, ownership lookup of the card
updateCard_findFirst(p, userId, cardId, data) ==
  /\ CanStart(p)
  /\ LET b == Begin(p, "updateCard", userId, 0, cardId, CardData(data))
     IN IF cardFindFirst(cardId, userId)
        THEN Goto(p, b, "updateCard_update")
        ELSE FailFirst(p, b, "Card not found")
  /\ nops' = nops + 1
  /\ UNCHANGED <<decks, cards, nextDeckId, nextCardId>>
  /\ UNCHANGED notSvcVars

\* the data clause of updateCard's prisma.card.update
updateCardRow(row, data) ==
  [row EXCEPT !.frontText = IF data.frontText # "" THEN Trim(data.frontText) ELSE @,
              !.backText = IF data.backText # "" THEN Trim(data.backText) ELSE @,
              !.memorized = IF data.hasMemorized THEN data.memorized ELSE @]

\* CardService.updateCard, prisma.card.update({ where: { id } })
updateCard_update(p) ==
  /\ At(p, "updateCard_update")
  /\ LET c == proc[p].cardId
     IN IF c \in DOMAIN cards
        THEN /\ cards' = [cards EXCEPT ![c] = updateCardRow(@, proc[p].data)]
             /\ Finish(p, "ok", {},
                       {[id |-> c, frontText |-> cards'[c].frontText,
                         backText |-> cards'[c].backText,
                         memorized |-> cards'[c].memorized, deckId |-> cards'[c].deckId]}, 0)
        ELSE /\ cards' = cards
             /\ Finish(p, "P2025", {}, {}, 0)
  /\ UNCHANGED <<decks, nextDeckId, nextCardId, nops>>
  /\ UNCHANGED notSvcVars

\* CardService.deleteCard, ownership lookup of the card; keeps existingCard.deckId
deleteCard_findFirst(p, userId, cardId) ==
  /\ CanStart(p)
  /\ LET b == Begin(p, "deleteCard", userId, 0, cardId, NoData)
     IN IF cardFindFirst(cardId, userId)
        THEN Goto(p, [b EXCEPT !.deckId = cards[cardId].deckId], "deleteCard_delete")
        ELSE FailFirst(p, b, "Card not found")
  /\ nops' = nops + 1
  /\ UNCHANGED <<decks, cards, nextDeckId, nextCardId>>
  /\ UNCHANGED notSvcVars

\* CardService.deleteCard, prisma.card.delete({ where: { id } })
deleteCard_delete(p) ==
  /\ At(p, "deleteCard_delete")
  /\ LET c == proc[p].cardId
     IN IF c \in DOMAIN cards
        THEN /\ cards' = Without(cards, {c})
             /\ Goto(p, proc[p], "updateDeckCardCount_count")
        ELSE /\ cards' = cards
             /\ Finish(p, "P2025", {}, {}, 0)
  /\ UNCHANGED <<decks, nextDeckId, nextCardId, nops>>
  /\ UNCHANGED notSvcVars

\* the search string after q.trim(), and String contains with mode 'insensitive', on
\* the one-letter texts the model uses
Queries == {" A "}

lowerText(s) ==
  CASE s = "A" -> "a"
    [] OTHER -> s

containsInsensitive(text, q) == lowerText(text) = lowerText(q)

\* the where clause of searchCards: the owner's decks, one deck if deckId is given
\* (0 stands for no deckId), and the query in frontText or backText
searchWhere(userId, q, deckId) ==
  {c \in DOMAIN cards :
     /\ cards[c].deckId \in DOMAIN decks
     /\ decks[cards[c].deckId].userId = userId
     /\ deckId # 0 => cards[c].deckId = deckId
     /\ \/ containsInsensitive(cards[c].frontText, q)
        \/ containsInsensitive(cards[c].backText, q)}

\* CardService.searchCards: prisma.card.findMany and prisma.card.count (first page)
searchCards(p, userId, query, deckId) ==
  /\ CanStart(p)
  /\ LET hit == searchWhere(userId, Trim(query), deckId)
     IN /\ proc' = proc
        /\ ret' = [NoRet EXCEPT !.op = "searchCards", !.userId = userId,
                                !.deckId = deckId, !.status = "ok",
                                !.cards = {CardRow(c) : c \in hit},
                                !.count = Cardinality(hit)]
  /\ nops' = nops + 1
  /\ UNCHANGED <<decks, cards, nextDeckId, nextCardId>>
  /\ UNCHANGED notSvcVars

\* a toggle that writes back the value it read
toggledValue_keep(existingMemorized) == existingMemorized

\* the value toggleMemorized writes: the negation of the value it read
toggledValue(existingMemorized) == ~existingMemorized

\* CardService.toggleMemorized, ownership lookup of the card; keeps existingCard.memorized
toggleMemorized_findFirst(p, userId, cardId) ==
  /\ CanStart(p)
  /\ LET b == Begin(p, "toggleMemorized", userId, 0, cardId, NoData)
     IN IF cardFindFirst(cardId, userId)
        THEN Goto(p, [b EXCEPT !.memorized = cards[cardId].memorized],
                  "toggleMemorized_update")
        ELSE FailFirst(p, b, "Card not found")
  /\ nops' = nops + 1
  /\ UNCHANGED <<decks, cards, nextDeckId, nextCardId>>
  /\ UNCHANGED notSvcVars

\* a toggle whose write negates the value stored at the time of the write
toggleMemorized_update_atomic(p) ==
  /\ At(p, "toggleMemorized_update")
  /\ LET c == proc[p].cardId
     IN IF c \in DOMAIN cards
        THEN /\ cards' = [cards EXCEPT ![c].memorized = ~cards[c].memorized]
             /\ Finish(p, "ok", {},
                       {[id |-> c, frontText |-> cards'[c].frontText,
                         backText |-> cards'[c].backText,
                         memorized |-> cards'[c].memorized, deckId |-> cards'[c].deckId]}, 0)
        ELSE /\ cards' = cards
             /\ Finish(p, "P2025", {}, {}, 0)
  /\ UNCHANGED <<decks, nextDeckId, nextCardId, nops>>
  /\ UNCHANGED notSvcVars

\* CardService.toggleMemorized, prisma.card.update({ where: { id } })
toggleMemorized_update(p) ==
  /\ At(p, "toggleMemorized_update")
  /\ LET c == proc[p].cardId
     IN IF c \in DOMAIN cards
        THEN /\ cards' = [cards EXCEPT ![c].memorized = toggledValue(proc[p].memorized)]
             /\ Finish(p, "ok", {},
                       {[id |-> c, frontText |-> cards'[c].frontText,
                         backText |-> cards'[c].backText,
                         memorized |-> cards'[c].memorized, deckId |-> cards'[c].deckId]}, 0)
        ELSE /\ cards' = cards
             /\ Finish(p, "P2025", {}, {}, 0)
  /\ UNCHANGED <<decks, nextDeckId, nextCardId, nops>>
  /\ UNCHANGED notSvcVars

\* the controller has sent the response (sendSuccess / sendError)
respond ==
  /\ ret # NoRet
  /\ ret' = NoRet
  /\ UNCHANGED <<decks, cards, nextDeckId, nextCardId, proc, nops>>
  /\ UNCHANGED notSvcVars

\* ---------------------------------------------------------------------------
\* The services under concurrent requests
\* ---------------------------------------------------------------------------
SvcNext ==
  \/ respond
  \/ \E p \in Procs :
       \/ \E u \in Users, d \in DeckInputs : createDeck(p, u, d)
       \/ \E u \in Users, d \in DeckIds : getDeckById(p, u, d)
       \/ \E u \in Users, d \in DeckIds : getDeckStats(p, u, d)
       \/ \E u \in Users, d \in DeckIds, x \in DeckUpdates : updateDeck_findFirst(p, u, d, x)
       \/ updateDeck_update(p)
       \/ \E u \in Users, d \in DeckIds : deleteDeck_findFirst(p, u, d)
       \/ deleteDeck_delete(p)
       \/ \E u \in Users, d \in DeckIds, x \in CardInputs : createCard_findFirst(p, u, d, x)
       \/ createCard_create(p)
       \/ updateDeckCardCount_count(p)
       \/ updateDeckCardCount_update(p)
       \/ \E u \in Users, d \in DeckIds : getDeckCards_findFirst(p, u, d)
       \/ getDeckCards_findMany(p)
       \/ \E u \in Users, d \in DeckIds : getStudyCards_findFirst(p, u, d)
       \/ getStudyCards_findMany(p)
       \/ \E u \in Users, d \in DeckIds : getCardStats_findFirst(p, u, d)
       \/ getCardStats_groupBy(p)
       \/ \E u \in Users, d \in DeckIds, x \in BulkInputs :
            bulkUpdateMemorized_findFirst(p, u, d, x.cardIds, x.memorized)
       \/ bulkUpdateMemorized_updateMany(p)
       \/ \E u \in Users, c \in CardIds : getCardById(p, u, c)
       \/ \E u \in Users, c \in CardIds, x \in CardUpdates : updateCard_findFirst(p, u, c, x)
       \/ updateCard_update(p)
       \/ \E u \in Users, c \in CardIds : deleteCard_findFirst(p, u, c)
       \/ deleteCard_delete(p)
       \/ \E u \in Users, q \in Queries, d \in {0} \cup DeckIds : searchCards(p, u, q, d)
       \/ \E u \in Users, c \in CardIds : toggleMemorized_findFirst(p, u, c)
       \/ toggleMemorized_update(p)


\* ---------------------------------------------------------------------------
\* Persistence gateway: errors
\* ---------------------------------------------------------------------------

\* errors a database call can raise; a message is the list of phrases it contains
Errors ==
  { [code |-> "P1001", message |-> <<"Can't reach database", "server">>],
    [code |-> "none", message |-> <<"Connection terminated", "unexpectedly">>],
    [code |-> "none", message |-> <<"Connection closed">>],
    [code |-> "P1017", message |-> <<"Server has closed the connection">>],
    [code |-> "P2002", message |-> <<"Unique constraint failed">>],
    [code |-> "none", message |-> <<"Deck not found">>] }

\* errors of the liveness query, $disconnect and $connect
ConnErrors ==
  { [code |-> "P1001", message |-> <<"Can't reach database", "server">>],
    [code |-> "P1017", message |-> <<"Server has closed the connection">>] }

NoError == [code |-> "none", message |-> << >>]

\* String.prototype.includes on a message
includes(message, phrase) == \E i \in DOMAIN message : message[i] = phrase

\* a classification that also takes code P1017 for a connection error
isConnectionError_P1017(error) ==
  \/ error.code \in {"P1001", "P1017"}
  \/ includes(error.message, "Can't reach database")
  \/ includes(error.message, "Connection terminated")
  \/ includes(error.message, "Connection closed")

\* isConnectionError in withRetry
isConnectionError(error) ==
  \/ error.code = "P1001"
  \/ includes(error.message, "Can't reach database")
  \/ includes(error.message, "Connection terminated")
  \/ includes(error.message, "Connection closed")

\* a catch block that retries whatever the error
shouldRetry_anyError(error, attempt, maxRetries) == attempt < maxRetries

\* the condition under which withRetry's catch block retries
shouldRetry(error, attempt, maxRetries) ==
  isConnectionError(error) /\ attempt < maxRetries

\* the for-loop condition of withRetry
loopCondition(attempt, maxRetries) == attempt <= maxRetries


\* ---------------------------------------------------------------------------
\* Persistence gateway: the places that call the database
\* ---------------------------------------------------------------------------
Site(svc, call, wrapped) == [svc |-> svc, call |-> call, wrapped |-> wrapped]

\* each prisma call of the services and whether it is passed to withRetry
CallSites ==
  { Site("AuthService.register", "user.findUnique", TRUE),
    Site("AuthService.register", "user.create", TRUE),
    Site("AuthService.login", "user.findUnique", TRUE),
    Site("AuthService.changePassword", "user.findUnique", FALSE),
    Site("AuthService.changePassword", "user.update", FALSE),
    Site("AuthService.updateProfile", "user.findUnique", FALSE),
    Site("AuthService.updateProfile", "user.update", FALSE),
    Site("DeckService.createDeck", "deck.create", FALSE),
    Site("DeckService.getUserDecks", "deck.findMany", FALSE),
    Site("DeckService.getUserDecks", "deck.count", FALSE),
    Site("DeckService.getDeckById", "deck.findFirst", FALSE),
    Site("DeckService.updateDeck", "deck.findFirst", FALSE),
    Site("DeckService.updateDeck", "deck.update", FALSE),
    Site("DeckService.deleteDeck", "deck.findFirst", FALSE),
    Site("DeckService.deleteDeck", "deck.delete", FALSE),
    Site("DeckService.getDeckStats", "deck.findFirst", FALSE),
    Site("DeckService.searchDecks", "deck.findMany", FALSE),
    Site("DeckService.searchDecks", "deck.count", FALSE),
    Site("CardService.createCard", "deck.findFirst", FALSE),
    Site("CardService.createCard", "card.create", FALSE),
    Site("CardService.getDeckCards", "deck.findFirst", FALSE),
    Site("CardService.getDeckCards", "card.findMany", FALSE),
    Site("CardService.getDeckCards", "card.count", FALSE),
    Site("CardService.getCardById", "card.findFirst", FALSE),
    Site("CardService.updateCard", "card.findFirst", FALSE),
    Site("CardService.updateCard", "card.update", FALSE),
    Site("CardService.deleteCard", "card.findFirst", FALSE),
    Site("CardService.deleteCard", "card.delete", FALSE),
    Site("CardService.toggleMemorized", "card.findFirst", FALSE),
    Site("CardService.toggleMemorized", "card.update", FALSE),
    Site("CardService.bulkUpdateMemorized", "deck.findFirst", FALSE),
    Site("CardService.bulkUpdateMemorized", "card.updateMany", FALSE),
    Site("CardService.getStudyCards", "deck.findFirst", FALSE),
    Site("CardService.getStudyCards", "card.findMany", FALSE),
    Site("CardService.searchCards", "card.findMany", FALSE),
    Site("CardService.searchCards", "card.count", FALSE),
    Site("CardService.getCardStats", "deck.findFirst", FALSE),
    Site("CardService.getCardStats", "card.groupBy", FALSE),
    Site("CardService.updateDeckCardCount", "card.count", FALSE),
    Site("CardService.updateDeckCardCount", "deck.update", FALSE) }

\* withRetry called with an explicit maxRetries
CallerSite == Site("caller", "operation", TRUE)

NoSite == Site("none", "none", FALSE)

\* ---------------------------------------------------------------------------
\* Persistence gateway: state
\* ---------------------------------------------------------------------------
Tag(error, what, n) == [code |-> error.code, message |-> error.message, what |-> what, n |-> n]

NoTag == Tag(NoError, "none", 0)

Event(e, ok, error) == [e |-> e, ok |-> ok, error |-> error]

GwIdle == [pc |-> "idle", site |-> NoSite, maxRetries |-> 0, attempt |-> 0, invocations |-> 0,
           log |-> << >>, value |-> 0, error |-> NoTag, errors |-> 0, delay |-> 0]

EnsIdle == [pc |-> "idle", caller |-> "none", steps |-> << >>, error |-> NoTag]

Settled(pc) == pc \in {"idle", "returned", "threw"}

GwInit ==
  /\ gw = GwIdle
  /\ ens = EnsIdle
  /\ connected = FALSE

\* ---------------------------------------------------------------------------
\* withRetry
\* ---------------------------------------------------------------------------

\* withRetry(operation, maxRetries) is entered; the loop invokes operation if it runs at all
withRetryEnter(site, maxRetries) ==
  IF loopCondition(1, maxRetries)
  THEN [GwIdle EXCEPT !.pc = "operation", !.site = site, !.maxRetries = maxRetries,
                      !.attempt = 1, !.invocations = 1]
  ELSE [GwIdle EXCEPT !.pc = "returned", !.site = site, !.maxRetries = maxRetries,
                      !.attempt = 1]

\* a service call that is wrapped: withRetry(async () => prisma..., default maxRetries = 2)
withRetry_service(site) ==
  /\ Settled(gw.pc) /\ Settled(ens.pc)
  /\ site.wrapped
  /\ gw' = withRetryEnter(site, 2)
  /\ UNCHANGED <<ens, connected>>
  /\ UNCHANGED notGwVars

\* withRetry called with an explicit maxRetries
withRetry_call(maxRetries) ==
  /\ Settled(gw.pc) /\ Settled(ens.pc)
  /\ gw' = withRetryEnter(CallerSite, maxRetries)
  /\ UNCHANGED <<ens, connected>>
  /\ UNCHANGED notGwVars

\* a service call that goes to prisma directly
prisma_call(site) ==
  /\ Settled(gw.pc) /\ Settled(ens.pc)
  /\ ~site.wrapped
  /\ gw' = [GwIdle EXCEPT !.pc = "prisma", !.site = site, !.invocations = 1]
  /\ UNCHANGED <<ens, connected>>
  /\ UNCHANGED notGwVars

\* the direct prisma call settles: its result or its error goes to the service's caller
prisma_settle(ok, error) ==
  /\ gw.pc = "prisma"
  /\ IF ok
     THEN /\ gw' = [gw EXCEPT !.pc = "returned", !.value = 1,
                              !.log = Append(@, Event("operation", TRUE, NoTag))]
          /\ connected' = TRUE
     ELSE /\ gw' = [gw EXCEPT !.pc = "threw", !.error = Tag(error, "operation", 1),
                              !.errors = @ + 1,
                              !.log = Append(@, Event("operation", FALSE,
                                                      Tag(error, "operation", 1)))]
          /\ connected' = connected
  /\ UNCHANGED ens
  /\ UNCHANGED notGwVars

\* ensureConnection is entered: its first liveness query is issued
ensureConnectionEnter(caller) == [EnsIdle EXCEPT !.pc = "query1", !.caller = caller]

\* the operation invoked by withRetry settles
withRetry_operation(ok, error) ==
  /\ gw.pc = "operation"
  /\ LET err == Tag(error, "operation", gw.invocations)
     IN IF ok
        THEN /\ gw' = [gw EXCEPT !.pc = "returned", !.value = gw.invocations,
                                 !.log = Append(@, Event("operation", TRUE, NoTag))]
             /\ connected' = TRUE
             /\ ens' = ens
        ELSE /\ connected' = connected
             /\ IF shouldRetry(error, gw.attempt, gw.maxRetries)
                THEN /\ gw' = [gw EXCEPT !.pc = "ensureConnection", !.errors = @ + 1,
                                         !.log = Append(@, Event("operation", FALSE, err))]
                     /\ ens' = ensureConnectionEnter("withRetry")
                ELSE /\ gw' = [gw EXCEPT !.pc = "threw", !.error = err, !.errors = @ + 1,
                                         !.log = Append(@, Event("operation", FALSE, err))]
                     /\ ens' = ens
  /\ UNCHANGED notGwVars

\* the backoff timer fires: the loop goes to its next attempt
withRetry_wait ==
  /\ gw.pc = "wait"
  /\ IF loopCondition(gw.attempt + 1, gw.maxRetries)
     THEN gw' = [gw EXCEPT !.pc = "operation", !.attempt = @ + 1, !.invocations = @ + 1,
                           !.log = Append(@, Event("wait", TRUE, NoTag))]
     ELSE gw' = [gw EXCEPT !.pc = "returned", !.attempt = @ + 1, !.value = 0,
                           !.log = Append(@, Event("wait", TRUE, NoTag))]
  /\ UNCHANGED <<ens, connected>>
  /\ UNCHANGED notGwVars

\* ---------------------------------------------------------------------------
\* ensureConnection
\* ---------------------------------------------------------------------------

\* a reconnect that does not disconnect first
ensureNext_skipDisconnect(pc, ok) ==
  CASE pc = "query1" /\ ok -> "returned"
    [] pc = "query1" /\ ~ok -> "connect"
    [] pc = "disconnect" /\ ok -> "connect"
    [] pc = "connect" /\ ok -> "query2"
    [] pc = "query2" /\ ok -> "returned"
    [] OTHER -> "threw"

\* where ensureConnection goes after a step settles
ensureNext(pc, ok) ==
  CASE pc = "query1" /\ ok -> "returned"
    [] pc = "query1" /\ ~ok -> "disconnect"
    [] pc = "disconnect" /\ ok -> "connect"
    [] pc = "connect" /\ ok -> "query2"
    [] pc = "query2" /\ ok -> "returned"
    [] OTHER -> "threw"

\* what the client holds after a step
clientAfter(pc, ok) ==
  CASE pc \in {"query1", "query2", "connect"} /\ ok -> TRUE
    [] pc = "disconnect" /\ ok -> FALSE
    [] OTHER -> connected

\* Math.min(a, b)
MathMin(a, b) == IF a <= b THEN a ELSE b

\* the delay of the setTimeout that follows failed attempt `attempt`, in milliseconds:
\* config/database.js waits a fixed second, the other versions back off exponentially
backoffDelay(b, attempt) ==
  IF b = "database.js" THEN 1000 ELSE MathMin(1000 * 2^(attempt - 1), 5000)

\* ensureConnection called on its own
ensureConnection_call ==
  /\ Settled(gw.pc) /\ Settled(ens.pc)
  /\ ens' = ensureConnectionEnter("direct")
  /\ UNCHANGED <<gw, connected>>
  /\ UNCHANGED notGwVars

\* one step of ensureConnection settles ($queryRaw, $disconnect, $connect, $queryRaw);
\* when ensureConnection ends, withRetry (if it is the caller) goes on in the same step
ensureConnection_step(ok, error) ==
  /\ ens.pc \in {"query1", "disconnect", "connect", "query2"}
  /\ LET next == ensureNext(ens.pc, ok)
         err == IF ok THEN NoTag ELSE Tag(error, ens.pc, 1)
         steps == Append(ens.steps, Event(ens.pc, ok, err))
     IN /\ ens' = [ens EXCEPT !.pc = next, !.steps = steps,
                              !.error = IF next = "threw" THEN err ELSE @]
        /\ connected' = clientAfter(ens.pc, ok)
        /\ IF ens.caller = "withRetry"
           THEN gw' = [gw EXCEPT
                         !.errors = IF ok THEN @ ELSE @ + 1,
                         !.pc = CASE next = "returned" -> "wait"
                                  [] next = "threw" -> "threw"
                                  [] OTHER -> @,
                         !.error = IF next = "threw" THEN err ELSE @,
                         !.delay = IF next = "returned"
                                   THEN backoffDelay(build, gw.attempt) ELSE @,
                         !.log = CASE next = "returned" ->
                                        Append(@, Event("ensureConnection", TRUE, NoTag))
                                   [] next = "threw" ->
                                        Append(@, Event("ensureConnection", FALSE, err))
                                   [] OTHER -> @]
           ELSE gw' = gw
  /\ UNCHANGED notGwVars

\* ---------------------------------------------------------------------------
\* The gateway under a sequence of database calls
\* ---------------------------------------------------------------------------
GwNext ==
  \/ \E site \in CallSites : withRetry_service(site)
  \/ \E m \in 0..MaxRetries : withRetry_call(m)
  \/ \E site \in CallSites : prisma_call(site)
  \/ prisma_settle(TRUE, NoError)
  \/ \E error \in Errors : prisma_settle(FALSE, error)
  \/ withRetry_operation(TRUE, NoError)
  \/ \E error \in Errors : withRetry_operation(FALSE, error)
  \/ withRetry_wait
  \/ ensureConnection_call
  \/ ensureConnection_step(TRUE, NoError)
  \/ \E error \in ConnErrors : ensureConnection_step(FALSE, error)

\* ---------------------------------------------------------------------------
\* Auth service: emails, passwords, tokens
\* ---------------------------------------------------------------------------
Emails == {"a@x.io", "A@x.io", "b@x.io"}

Passwords == {"pw1111", "pw2222", "pw3333"}

\* String.prototype.toLowerCase on the emails the model uses
toLowerCase(s) ==
  CASE s = "A@x.io" -> "a@x.io"
    [] OTHER -> s

NoHash == [alg |-> "none", cost |-> 0, of |-> ""]

\* bcrypt.hash(password, saltRounds)
bcryptHash(password, saltRounds) == [alg |-> "bcrypt", cost |-> saltRounds, of |-> password]

\* bcrypt.compare(password, hash)
bcryptCompare(password, hash) == hash.alg = "bcrypt" /\ hash.of = password

NoToken == [userId |-> "none", signed |-> FALSE, expired |-> FALSE]

\* generateToken({ userId }): signed with the server's secret, not yet expired
generateToken(userId) == [userId |-> userId, signed |-> TRUE, expired |-> FALSE]

\* the tokens a request can carry
Tokens ==
  [userId : Users, signed : BOOLEAN, expired : BOOLEAN]

\* jwt.verify(token, secret): the signature is checked before the expiry
jwtVerify(token) ==
  CASE ~token.signed -> "JsonWebTokenError"
    [] token.expired -> "TokenExpiredError"
    [] OTHER -> "decoded"

NoUser == [id |-> "none", email |-> "", name |-> "null"]

\* a user as selected without the password
UserView(id) == [id |-> id, email |-> users[id].email, name |-> users[id].name]

\* prisma.user.findUnique({ where: { email } }): the ids holding that email
userByEmail(email) == {u \in DOMAIN users : users[u].email = email}

\* ids are generated fresh
FreshUserId == IF "u1" \notin DOMAIN users THEN "u1" ELSE "u2"

\* request bodies
RegisterInputs ==
  { [email |-> "a@x.io", password |-> "pw1111"],
    [email |-> "A@x.io", password |-> "pw2222"],
    [email |-> "b@x.io", password |-> "pw1111"],
    [email |-> "b@x.io", password |-> ""] }

LoginInputs ==
  { [email |-> "a@x.io", password |-> "pw1111"],
    [email |-> "A@x.io", password |-> "pw2222"],
    [email |-> "A@x.io", password |-> "pw3333"],
    [email |-> "b@x.io", password |-> "pw1111"] }

ChangePasswordInputs ==
  { [oldPassword |-> "pw1111", newPassword |-> "pw2222"],
    [oldPassword |-> "pw1111", newPassword |-> "pw3333"],
    [oldPassword |-> "pw2222", newPassword |-> "pw1111"] }

ProfileInputs ==
  { [hasName |-> TRUE, name |-> "N", hasEmail |-> FALSE, email |-> ""],
    [hasName |-> FALSE, name |-> "", hasEmail |-> TRUE, email |-> "A@x.io"],
    [hasName |-> TRUE, name |-> "N", hasEmail |-> TRUE, email |-> "b@x.io"] }

AIdle == [pc |-> "idle", op |-> "none", userId |-> "none", email |-> "", password |-> "",
          newPassword |-> "", hasName |-> FALSE, name |-> "", hasEmail |-> FALSE,
          hash |-> NoHash, token |-> NoToken]

NoARet == [op |-> "none", email |-> "", userId |-> "none", status |-> 0, message |-> "",
           token |-> NoToken, user |-> NoUser, next |-> FALSE, reqUser |-> NoUser]

AQuiet == aret = NoARet

\* a new request takes the first free slot
ACanStart(p) ==
  /\ AQuiet
  /\ areq[p].pc = "idle"
  /\ p = "p1" \/ areq["p1"].pc # "idle"
  /\ aops < MaxOps

AAt(p, pc) == AQuiet /\ areq[p].pc = pc

\* sendSuccess / sendError of the controller, or the middleware's res.status().json()
AResponse(r, status, message) ==
  [NoARet EXCEPT !.op = r.op, !.email = r.email, !.userId = r.userId,
                 !.status = status, !.message = message]

AFinish(p, response) ==
  /\ areq' = [areq EXCEPT ![p] = AIdle]
  /\ aret' = response

AGoto(p, r, pc) ==
  /\ areq' = [areq EXCEPT ![p] = [r EXCEPT !.pc = pc]]
  /\ aret' = NoARet

AuthInit ==
  /\ users = << >>
  /\ areq = [p \in Procs |-> AIdle]
  /\ aret = NoARet
  /\ aops = 0

\* ---------------------------------------------------------------------------
\* AuthService.register
\* ---------------------------------------------------------------------------

\* a registration that looks the email up as it was typed
registerLookupEmail_asTyped(email) == email

\* the email register looks up: email.toLowerCase()
registerLookupEmail(email) == toLowerCase(email)

\* AuthController.register: the status of a failed registration
registerFailure(r, message) ==
  IF message = "User already exists with this email"
  THEN AResponse(r, 400, message)
  ELSE AResponse(r, 500, "Registration failed")

\* a user row can still be inserted by every register that is past its lookup
UserIdLeft ==
  Cardinality(DOMAIN users) + Cardinality({q \in Procs : areq[q].pc = "register_create"})
    < Cardinality(Users)

\* AuthService.register: input check and the lookup of an existing user
register_findUnique(p, data) ==
  /\ ACanStart(p)
  /\ UserIdLeft
  /\ LET r == [AIdle EXCEPT !.op = "register", !.email = data.email,
                            !.password = data.password]
     IN IF data.email = "" \/ data.password = ""
        THEN AFinish(p, registerFailure(r, "Email and password are required"))
        ELSE IF userByEmail(registerLookupEmail(data.email)) # {}
        THEN AFinish(p, registerFailure(r, "User already exists with this email"))
        ELSE AGoto(p, r, "register_create")
  /\ aops' = aops + 1
  /\ users' = users
  /\ UNCHANGED notAuthVars

\* AuthService.register: bcrypt.hash, then prisma.user.create (email is unique), then
\* generateToken
register_create(p) ==
  /\ AAt(p, "register_create")
  /\ LET r == areq[p]
         id == FreshUserId
         row == [email |-> toLowerCase(r.email),
                 password |-> bcryptHash(r.password, 12),
                 name |-> "null"]
     IN IF userByEmail(row.email) # {}
        THEN /\ users' = users
             /\ AFinish(p, registerFailure(r, "P2002"))
        ELSE /\ users' = users @@ (id :> row)
             /\ AFinish(p, [AResponse(r, 201, "User registered successfully") EXCEPT
                              !.userId = id,
                              !.user = [id |-> id, email |-> row.email, name |-> row.name],
                              !.token = generateToken(id)])
  /\ aops' = aops
  /\ UNCHANGED notAuthVars

\* ---------------------------------------------------------------------------
\* AuthService.login
\* ---------------------------------------------------------------------------

\* a login that tells an unknown email from a wrong password
loginUnknownEmail_userNotFound == "User not found"

\* the error login throws when no user holds the email
loginUnknownEmail == "Invalid email or password"

\* the error login throws when the password does not match
loginWrongPassword == "Invalid email or password"

\* AuthController.login: the status of a failed login
loginFailure(r, message) ==
  IF message = "Invalid email or password"
  THEN AResponse(r, 401, message)
  ELSE AResponse(r, 500, "Login failed")

\* AuthService.login: input check, prisma.user.findUnique, bcrypt.compare on the row
\* that was read, generateToken
login(p, data) ==
  /\ ACanStart(p)
  /\ LET r == [AIdle EXCEPT !.op = "login", !.email = data.email,
                            !.password = data.password]
         found == userByEmail(toLowerCase(data.email))
     IN IF data.email = "" \/ data.password = ""
        THEN AFinish(p, loginFailure(r, "Email and password are required"))
        ELSE IF found = {}
        THEN AFinish(p, loginFailure(r, loginUnknownEmail))
        ELSE LET id == CHOOSE u \in found : TRUE
             IN IF ~bcryptCompare(data.password, users[id].password)
                THEN AFinish(p, loginFailure(r, loginWrongPassword))
                ELSE AFinish(p, [AResponse(r, 200, "Login successful") EXCEPT
                                   !.userId = id,
                                   !.user = UserView(id),
                                   !.token = generateToken(id)])
  /\ aops' = aops + 1
  /\ users' = users
  /\ UNCHANGED notAuthVars

\* a logout that ends the account's life on the server
logoutStore_dropUser(userId) == Without(users, {userId})

\* the User table after logout: the method only returns true
logoutStore(userId) == users

\* AuthService.logout: nothing is revoked
logout(p, userId) ==
  /\ ACanStart(p)
  /\ AFinish(p, AResponse([AIdle EXCEPT !.op = "logout", !.userId = userId],
                          200, "Logout successful"))
  /\ aops' = aops + 1
  /\ users' = logoutStore(userId)
  /\ UNCHANGED notAuthVars

\* ---------------------------------------------------------------------------
\* AuthService.changePassword
\* ---------------------------------------------------------------------------

\* AuthController.changePassword: the status of a failed change
changePasswordFailure(r, message) ==
  IF message = "Invalid current password"
  THEN AResponse(r, 400, message)
  ELSE AResponse(r, 500, "Failed to change password")

\* AuthService.changePassword: prisma.user.findUnique by id, bcrypt.compare of
\* oldPassword with the hash that was read
changePassword_findUnique(p, userId, data) ==
  /\ ACanStart(p)
  /\ LET r == [AIdle EXCEPT !.op = "changePassword", !.userId = userId,
                            !.password = data.oldPassword,
                            !.newPassword = data.newPassword]
     IN IF userId \notin DOMAIN users
        THEN AFinish(p, changePasswordFailure(r, "User not found"))
        ELSE IF ~bcryptCompare(data.oldPassword, users[userId].password)
        THEN AFinish(p, changePasswordFailure(r, "Invalid current password"))
        ELSE AGoto(p, [r EXCEPT !.hash = users[userId].password], "changePassword_update")
  /\ aops' = aops + 1
  /\ users' = users
  /\ UNCHANGED notAuthVars

\* AuthService.changePassword: bcrypt.hash of newPassword, then prisma.user.update
changePassword_update(p) ==
  /\ AAt(p, "changePassword_update")
  /\ LET r == areq[p]
     IN IF r.userId \in DOMAIN users
        THEN /\ users' = [users EXCEPT ![r.userId].password = bcryptHash(r.newPassword, 12)]
             /\ AFinish(p, AResponse(r, 200, "Password changed successfully"))
        ELSE /\ users' = users
             /\ AFinish(p, changePasswordFailure(r, "P2025"))
  /\ aops' = aops
  /\ UNCHANGED notAuthVars

\* ---------------------------------------------------------------------------
\* AuthService.updateProfile
\* ---------------------------------------------------------------------------

\* a profile update that stores the email as it was typed
updateProfileEmail_asTyped(email) == email

\* the email updateProfile stores: email.toLowerCase()
updateProfileEmail(email) == toLowerCase(email)

\* AuthController.updateProfile: the status of a failed update
updateProfileFailure(r, message) ==
  IF message = "Email already exists"
  THEN AResponse(r, 400, message)
  ELSE AResponse(r, 500, "Failed to update profile")

\* prisma.user.update({ where: { id: userId }, data: updateFields }); email is unique
updateProfileWrite(p, r) ==
  LET email == updateProfileEmail(r.email)
  IN IF r.userId \notin DOMAIN users
     THEN /\ users' = users
          /\ AFinish(p, updateProfileFailure(r, "P2025"))
     ELSE IF r.hasEmail /\ userByEmail(email) \ {r.userId} # {}
     THEN /\ users' = users
          /\ AFinish(p, updateProfileFailure(r, "P2002"))
     ELSE /\ users' = [users EXCEPT
                         ![r.userId].name = IF r.hasName THEN r.name ELSE @,
                         ![r.userId].email = IF r.hasEmail THEN email ELSE @]
          /\ AFinish(p, [AResponse(r, 200, "Profile updated successfully") EXCEPT
                           !.user = [id |-> r.userId,
                                     email |-> users'[r.userId].email,
                                     name |-> users'[r.userId].name]])

\* AuthService.updateProfile is entered: with an email, the lookup of its holder;
\* without one, the update is the first database call
updateProfile_findUnique(p, userId, data) ==
  /\ ACanStart(p)
  /\ LET r == [AIdle EXCEPT !.op = "updateProfile", !.userId = userId,
                            !.email = data.email, !.hasEmail = data.hasEmail,
                            !.name = data.name, !.hasName = data.hasName]
     IN IF ~data.hasEmail
        THEN updateProfileWrite(p, r)
        ELSE IF userByEmail(toLowerCase(data.email)) \ {userId} # {}
        THEN users' = users /\ AFinish(p, updateProfileFailure(r, "Email already exists"))
        ELSE users' = users /\ AGoto(p, r, "updateProfile_update")
  /\ aops' = aops + 1
  /\ UNCHANGED notAuthVars

\* AuthService.updateProfile: the update that follows the lookup
updateProfile_update(p) ==
  /\ AAt(p, "updateProfile_update")
  /\ updateProfileWrite(p, areq[p])
  /\ aops' = aops
  /\ UNCHANGED notAuthVars

\* ---------------------------------------------------------------------------
\* authenticateToken
\* ---------------------------------------------------------------------------

\* a middleware that lets a request through whether or not its user was found
userMissing_ignored(user) == FALSE

\* the middleware's test of the lookup result: if (!user)
userMissing(user) == user = NoUser

Unauthorized(r, message) == AResponse(r, 401, message)

\* authenticateToken up to its database call: the Authorization header, jwt.verify
authenticateToken_verify(p, hasToken, token) ==
  /\ ACanStart(p)
  /\ LET r == [AIdle EXCEPT !.op = "authenticateToken",
                            !.userId = IF hasToken THEN token.userId ELSE "none",
                            !.token = IF hasToken THEN token ELSE NoToken]
     IN IF ~hasToken
        THEN AFinish(p, Unauthorized(r, "Access token required"))
        ELSE CASE jwtVerify(token) = "JsonWebTokenError" ->
                    AFinish(p, Unauthorized(r, "Invalid token"))
               [] jwtVerify(token) = "TokenExpiredError" ->
                    AFinish(p, Unauthorized(r, "Token expired"))
               [] OTHER -> AGoto(p, r, "authenticateToken_findUnique")
  /\ aops' = aops + 1
  /\ users' = users
  /\ UNCHANGED notAuthVars

\* authenticateToken after prisma.user.findUnique by decoded.userId: 401, or req.user
\* is set and next() runs the protected handler
authenticateToken_findUnique(p) ==
  /\ AAt(p, "authenticateToken_findUnique")
  /\ LET r == areq[p]
         user == IF r.userId \in DOMAIN users THEN UserView(r.userId) ELSE NoUser
     IN IF userMissing(user)
        THEN AFinish(p, Unauthorized(r, "User not found"))
        ELSE AFinish(p, [AResponse(r, 0, "") EXCEPT
                           !.reqUser = user, !.token = r.token, !.next = TRUE])
  /\ aops' = aops
  /\ users' = users
  /\ UNCHANGED notAuthVars

\* the response has been sent (or the protected handler has taken over)
authRespond ==
  /\ aret # NoARet
  /\ aret' = NoARet
  /\ UNCHANGED <<users, areq, aops>>
  /\ UNCHANGED notAuthVars

\* ---------------------------------------------------------------------------
\* The Auth service and the middleware under concurrent requests
\* ---------------------------------------------------------------------------
AuthNext ==
  \/ authRespond
  \/ \E p \in Procs :
       \/ \E x \in RegisterInputs : register_findUnique(p, x)
       \/ register_create(p)
       \/ \E x \in LoginInputs : login(p, x)
       \/ \E u \in Users : logout(p, u)
       \/ \E u \in Users, x \in ChangePasswordInputs : changePassword_findUnique(p, u, x)
       \/ changePassword_update(p)
       \/ \E u \in Users, x \in ProfileInputs : updateProfile_findUnique(p, u, x)
       \/ updateProfile_update(p)
       \/ authenticateToken_verify(p, FALSE, NoToken)
       \/ \E t \in Tokens : authenticateToken_verify(p, TRUE, t)
       \/ authenticateToken_findUnique(p)

\* ---------------------------------------------------------------------------
\* Keep-alive timer
\* ---------------------------------------------------------------------------

\* the versions of the gateway module in the repository
Builds == {"database.js", "part_003", "part_004"}

\* the period of setInterval, in minutes
interval(b) ==
  CASE b = "database.js" -> 5
    [] b = "part_003" -> 10
    [] b = "part_004" -> 4

\* the activity window, in minutes: 8 * 60 * 1000 ms
ActivityWindow == 8

\* only one version keeps lastActivity and skips the ping on recent activity
tracksActivity(b) == b = "part_003"

\* only one version calls ensureConnection when the ping fails
reconnectsOnFailure(b) == b = "part_004"

CbIdle == [pc |-> "idle", queries |-> 0, reconnects |-> 0, pingFailed |-> FALSE,
           log |-> << >>, threw |-> FALSE]

\* startKeepAlive(): setInterval
startKeepAlive == [active |-> TRUE, fired |-> 0, last |-> 0]

\* keepAliveInterval before startKeepAlive has run
NoTimer == [active |-> FALSE, fired |-> 0, last |-> 0]

Life(pc, log) == [pc |-> pc, log |-> log, threw |-> FALSE]

\* the timer of a given version right after startKeepAlive
KaStart(b) ==
  /\ build = b
  /\ clock = 0
  /\ lastActivity = 0
  /\ lastDbOp = -1
  /\ timer = startKeepAlive
  /\ cb = CbIdle
  /\ life = Life("running", <<"keep-alive started">>)

\* a given version of the module is loaded: warmupConnection() is called, its
\* ensureConnection issues the first liveness query; no timer exists yet
KaLoad(b) ==
  /\ build = b
  /\ clock = 0
  /\ lastActivity = 0
  /\ lastDbOp = -1
  /\ timer = NoTimer
  /\ cb = CbIdle
  /\ life = Life("warmup", <<"warming up">>)
  /\ gw = GwIdle
  /\ ens = ensureConnectionEnter("warmup")
  /\ connected = FALSE

\* warmupConnection().then(...) starts the timer only if warmup succeeded
warmupThen_onSuccess(ok) == ok

\* warmupConnection catches the error of ensureConnection, so its promise is
\* fulfilled in both cases and the .then callback runs
warmupThen(ok) == TRUE

\* ensureConnection of warmupConnection has settled: the outcome is logged, then
\* .then(() => startKeepAlive()); the settled call is not looked at again
warmupConnection_settle ==
  /\ life.pc = "warmup"
  /\ ens.caller = "warmup"
  /\ ens.pc \in {"returned", "threw"}
  /\ LET ok == ens.pc = "returned"
         logged == Append(life.log, IF ok THEN "warmed up" ELSE "warmup failed")
     IN IF warmupThen(ok)
        THEN /\ timer' = startKeepAlive
             /\ life' = [life EXCEPT !.pc = "running",
                                     !.log = Append(logged, "keep-alive started")]
        ELSE /\ timer' = timer
             /\ life' = [life EXCEPT !.pc = "running", !.log = logged]
  /\ ens' = EnsIdle
  /\ UNCHANGED <<gw, connected>>
  /\ UNCHANGED <<build, clock, lastActivity, lastDbOp, cb>>
  /\ UNCHANGED notKaVars

\* the services load config/database.js
KaInit == KaStart("database.js")

\* a tick is due and its callback has not run yet
TickDue ==
  /\ timer.active
  /\ clock > 0
  /\ clock % interval(build) = 0
  /\ timer.last # clock

\* a minute passes; warmup and a callback settle well within a minute
advance ==
  /\ ~TickDue
  /\ cb.pc = "idle"
  /\ life.pc # "warmup"
  /\ clock < MaxTicks * interval(build)
  /\ clock' = clock + 1
  /\ UNCHANGED <<build, life, lastActivity, lastDbOp, timer, cb>>
  /\ UNCHANGED <<gwVars, notKaVars>>

\* trackActivity(), called at the top of withRetry in the version that has it
trackActivity(b) == IF tracksActivity(b) THEN clock ELSE lastActivity

\* a service calls the database through withRetry
dbCall_withRetry(site) ==
  /\ site.wrapped
  /\ cb.pc = "idle"
  /\ lastDbOp # clock
  /\ lastDbOp' = clock
  /\ lastActivity' = trackActivity(build)
  /\ UNCHANGED <<build, life, clock, timer, cb>>
  /\ UNCHANGED <<gwVars, notKaVars>>

\* a service calls prisma directly
dbCall_prisma(site) ==
  /\ ~site.wrapped
  /\ cb.pc = "idle"
  /\ lastDbOp # clock
  /\ lastDbOp' = clock
  /\ UNCHANGED <<build, life, clock, lastActivity, timer, cb>>
  /\ UNCHANGED <<gwVars, notKaVars>>

\* the setInterval callback starts: the activity test, then the liveness query
keepAlive_tick ==
  /\ TickDue
  /\ timer.fired < MaxTicks
  /\ timer' = [timer EXCEPT !.fired = @ + 1, !.last = clock]
  /\ IF tracksActivity(build) /\ clock - lastActivity < ActivityWindow
     THEN cb' = [CbIdle EXCEPT !.log = <<"skip">>]
     ELSE cb' = [CbIdle EXCEPT !.pc = "ping", !.queries = 1]
  /\ UNCHANGED <<build, life, clock, lastActivity, lastDbOp>>
  /\ UNCHANGED <<gwVars, notKaVars>>

\* the liveness query of the callback settles
keepAlive_ping(ok) ==
  /\ cb.pc = "ping"
  /\ IF ok
     THEN /\ cb' = [cb EXCEPT !.pc = "idle", !.log = Append(@, "ping successful")]
          /\ connected' = IF life.pc = "exited" THEN connected ELSE TRUE
          /\ ens' = ens
     ELSE /\ connected' = connected
          /\ IF reconnectsOnFailure(build)
             THEN /\ cb' = [cb EXCEPT !.pc = "reconnect", !.pingFailed = TRUE,
                                      !.reconnects = @ + 1,
                                      !.log = Append(@, "ping failed")]
                  /\ ens' = ensureConnectionEnter("keepAlive")
             ELSE /\ cb' = [cb EXCEPT !.pc = "idle", !.pingFailed = TRUE,
                                      !.log = Append(@, "ping failed")]
                  /\ ens' = ens
  /\ gw' = gw
  /\ UNCHANGED <<build, life, clock, lastActivity, lastDbOp, timer>>
  /\ UNCHANGED notKaVars

\* the callback's ensureConnection has settled: both outcomes are only logged
keepAlive_reconnect ==
  /\ cb.pc = "reconnect"
  /\ ens.caller = "keepAlive"
  /\ ens.pc \in {"returned", "threw"}
  /\ cb' = [cb EXCEPT !.pc = "idle",
                      !.log = Append(@, IF ens.pc = "returned" THEN "reconnected"
                                        ELSE "reconnect failed")]
  /\ UNCHANGED <<build, life, clock, lastActivity, lastDbOp, timer>>
  /\ UNCHANGED <<gwVars, notKaVars>>

\* process.on('beforeExit'): clearInterval and $disconnect; a callback of the timer
\* that is awaiting its query or its ensureConnection is not stopped by either
beforeExit ==
  /\ life.pc = "running"
  /\ timer.active
  /\ timer' = [timer EXCEPT !.active = FALSE]
  /\ connected' = FALSE
  /\ life' = [life EXCEPT !.pc = "exited", !.log = Append(@, "keep-alive stopped")]
  /\ UNCHANGED <<gw, ens>>
  /\ UNCHANGED <<build, clock, lastActivity, lastDbOp, cb>>
  /\ UNCHANGED notKaVars

\* ---------------------------------------------------------------------------
\* The keep-alive timer next to the services' database calls
\* ---------------------------------------------------------------------------
KaNext ==
  \/ warmupConnection_settle
  \/ advance
  \/ \E site \in CallSites : dbCall_withRetry(site)
  \/ \E site \in CallSites : dbCall_prisma(site)
  \/ keepAlive_tick
  \/ keepAlive_ping(TRUE)
  \/ keepAlive_ping(FALSE)
  \/ ensureConnection_step(TRUE, NoError)
  \/ \E error \in ConnErrors : ensureConnection_step(FALSE, error)
  \/ keepAlive_reconnect
  \/ beforeExit

\* ---------------------------------------------------------------------------
\* Numbers: the IEEE 754 double arithmetic of (memorizedCards / totalCards) * 100
\* ---------------------------------------------------------------------------

\* significand width of a double
Precision == 53

\* a positive double is [bits, exp]: bits is the significand, most significant bit
\* first, Precision long; exp is the weight of its last bit (value = bits * 2^exp)
Double(bits, exp) == [bits |-> bits, exp |-> exp]

RECURSIVE bitsValue(_)
\* the integer written by a short bit sequence
bitsValue(bits) ==
  IF bits = << >> THEN 0
  ELSE 2 * bitsValue(SubSeq(bits, 1, Len(bits) - 1)) + bits[Len(bits)]

RECURSIVE increment(_)
\* bits + 1, one bit longer when the carry runs out at the top
increment(bits) ==
  IF bits = << >> THEN <<1>>
  ELSE IF bits[Len(bits)] = 0
       THEN SubSeq(bits, 1, Len(bits) - 1) \o <<1>>
       ELSE increment(SubSeq(bits, 1, Len(bits) - 1)) \o <<0>>

\* round to nearest, ties to even: kept are the bits to keep, guard the first bit
\* dropped, sticky whether anything nonzero follows it; exp is the weight of kept's
\* last bit
roundNearestEven(kept, guard, sticky, exp) ==
  LET up == guard = 1 /\ (sticky \/ kept[Len(kept)] = 1)
      r == IF up THEN increment(kept) ELSE kept
  IN IF Len(r) > Len(kept)
     THEN Double(SubSeq(r, 1, Len(kept)), exp + 1)
     ELSE Double(r, exp)

RECURSIVE leadingZeros(_, _)
\* the number of zero bits after the binary point of a / b, for 0 < a < b
leadingZeros(a, b) == IF 2 * a >= b THEN 0 ELSE 1 + leadingZeros(2 * a, b)

RECURSIVE expansion(_, _, _)
\* n bits of the binary expansion of a / b (0 <= a < b), followed by the remainder
expansion(a, b, n) ==
  IF n = 0 THEN <<a>>
  ELSE LET bit == IF 2 * a >= b THEN 1 ELSE 0
       IN <<bit>> \o expansion(2 * a - bit * b, b, n - 1)

RECURSIVE shiftLeftMod(_, _, _)
\* (a * 2^n) mod b
shiftLeftMod(a, b, n) == IF n = 0 THEN a % b ELSE shiftLeftMod((2 * a) % b, b, n - 1)

\* the double nearest to a / b, for integers 0 < a <= b: the significand is read off
\* the binary expansion of a / 2b, which is below 1
divide(a, b) ==
  LET z == leadingZeros(a, 2 * b)
      e == expansion(shiftLeftMod(a, 2 * b, z), 2 * b, Precision + 1)
      rest == e[Precision + 2]
  IN roundNearestEven(SubSeq(e, 1, Precision), e[Precision + 1], rest # 0,
                      1 - (z + Precision))

RECURSIVE timesSmall(_, _, _)
\* bits * c + carry for a small integer c: the bits of the product, last bit first
timesSmall(bits, c, carry) ==
  IF bits = << >>
  THEN IF carry = 0 THEN << >> ELSE <<carry % 2>> \o timesSmall(<< >>, c, carry \div 2)
  ELSE LET v == c * bits[Len(bits)] + carry
       IN <<v % 2>> \o timesSmall(SubSeq(bits, 1, Len(bits) - 1), c, v \div 2)

Reverse(s) == [i \in 1..Len(s) |-> s[Len(s) + 1 - i]]

\* whether a bit sequence has a 1
anyOne(bits) == \E i \in DOMAIN bits : bits[i] = 1

\* the double nearest to x * c, for a positive double x and a small integer c >= 1
multiply(x, c) ==
  LET p == Reverse(timesSmall(x.bits, c, 0))
      g == Len(p) - Precision
  IN IF g = 0 THEN Double(p, x.exp)
     ELSE roundNearestEven(SubSeq(p, 1, Precision), p[Precision + 1],
                           anyOne(SubSeq(p, Precision + 2, Len(p))), x.exp + g)

\* Math.round of a positive double below 2^Precision: the nearest integer, a
\* fraction of exactly one half going up
MathRound(x) ==
  LET n == Precision + x.exp      \* how many bits stand before the binary point
  IN IF n < 0 THEN 0
     ELSE bitsValue(SubSeq(x.bits, 1, n)) + (IF n < Precision THEN x.bits[n + 1] ELSE 0)

\* totalCards > 0 ? Math.round((memorizedCards / totalCards) * 100) : 0
progressPercentage(memorizedCards, totalCards) ==
  IF totalCards > 0
  THEN IF memorizedCards = 0 THEN 0
       ELSE MathRound(multiply(divide(memorizedCards, totalCards), 100))
  ELSE 0

\* ---------------------------------------------------------------------------
\* Statistics of a deck, computed from the rows a query returned
\* ---------------------------------------------------------------------------

\* the cards of a deck with t cards of which the first m are memorized
StatRows(t, m) == [i \in 1..t |-> [id |-> i, memorized |-> i <= m]]

NoStats == [op |-> "none", totalCards |-> 0, memorizedCards |-> 0, unmemorizedCards |-> 0,
            progressPercentage |-> 0]

\* the deck row (with its cached cardCount) and the card rows that were fetched
StatsInput(t, m, cardCount) ==
  [pc |-> "fetched", cardCount |-> cardCount, cards |-> StatRows(t, m), out |-> NoStats]

StatsIdle == [pc |-> "idle", cardCount |-> 0, cards |-> << >>, out |-> NoStats]

StudyIdle == [pc |-> "idle", rows |-> << >>, deckId |-> 0, limit |-> 0,
              memorizedOnly |-> FALSE, unmemorizedOnly |-> FALSE, out |-> << >>]

ListIdle == [pc |-> "idle", op |-> "none", rows |-> << >>, page |-> 1, limit |-> 1,
             search |-> "", items |-> << >>, total |-> 0, pages |-> 0]

\* the requests that use the shared client at the same time
Reqs == 1..MaxReqs

\* a request: where it is on the client, how it reached it, and withRetry's attempt
ReqIdle == [pc |-> "idle", kind |-> "none", attempt |-> 0]

SharedIdle == [connected |-> FALSE, reqs |-> [r \in Reqs |-> ReqIdle]]

FnInit == stats = StatsIdle /\ study = StudyIdle /\ listing = ListIdle /\ shared = SharedIdle

\* array.filter(...).length
filterLength(rows, memorized) ==
  Cardinality({i \in DOMAIN rows : rows[i].memorized = memorized})

\* DeckService.getDeckStats, after findFirst({ include: { cards } }) has returned
getDeckStats_compute ==
  /\ stats.pc = "fetched"
  /\ LET totalCards == Len(stats.cards)
         memorizedCards == filterLength(stats.cards, TRUE)
     IN stats' = [stats EXCEPT
                    !.pc = "returned",
                    !.out = [op |-> "getDeckStats",
                             totalCards |-> totalCards,
                             memorizedCards |-> memorizedCards,
                             unmemorizedCards |-> totalCards - memorizedCards,
                             progressPercentage |->
                               progressPercentage(memorizedCards, totalCards)]]
  /\ UNCHANGED <<study, listing, shared, notFnVars>>

\* prisma.card.groupBy({ by: ['memorized'], where: { deckId }, _count: true }):
\* one row per value of memorized that occurs
groupBy(rows) ==
  {[memorized |-> b, count |-> filterLength(rows, b)] :
     b \in {r.memorized : r \in {rows[i] : i \in DOMAIN rows}}}

\* stats.find(predicate)?._count || 0
findCount(groups, memorized) ==
  IF \E g \in groups : g.memorized = memorized
  THEN (CHOOSE g \in groups : g.memorized = memorized).count
  ELSE 0

RECURSIVE sumCounts(_)
\* stats.reduce((sum, stat) => sum + stat._count, 0)
sumCounts(groups) ==
  IF groups = {} THEN 0
  ELSE LET g == CHOOSE x \in groups : TRUE
       IN g.count + sumCounts(groups \ {g})

\* CardService.getCardStats, after card.groupBy has returned
getCardStats_compute ==
  /\ stats.pc = "fetched"
  /\ LET groups == groupBy(stats.cards)
         totalCards == sumCounts(groups)
         memorizedCards == findCount(groups, TRUE)
     IN stats' = [stats EXCEPT
                    !.pc = "returned",
                    !.out = [op |-> "getCardStats",
                             totalCards |-> totalCards,
                             memorizedCards |-> memorizedCards,
                             unmemorizedCards |-> findCount(groups, FALSE),
                             progressPercentage |->
                               progressPercentage(memorizedCards, totalCards)]]
  /\ UNCHANGED <<study, listing, shared, notFnVars>>

StatsNext ==
  \/ getDeckStats_compute
  \/ getCardStats_compute

\* ---------------------------------------------------------------------------
\* Study session: the query of getStudyCards
\* ---------------------------------------------------------------------------

\* instants of updatedAt
Times == 1..2

StudyRow == [deckId : 1..2, memorized : BOOLEAN, updatedAt : Times]

\* let where = { deckId }; memorizedOnly is looked at first, then unmemorizedOnly
studyWhere(rows, deckId, memorizedOnly, unmemorizedOnly) ==
  {c \in DOMAIN rows :
     /\ rows[c].deckId = deckId
     /\ IF memorizedOnly THEN rows[c].memorized
        ELSE IF unmemorizedOnly THEN ~rows[c].memorized
        ELSE TRUE}

\* orderBy: [{ memorized: 'asc' }, { updatedAt: 'asc' }], false before true
sortsBefore(a, b) ==
  \/ ~a.memorized /\ b.memorized
  \/ a.memorized = b.memorized /\ a.updatedAt < b.updatedAt

\* the orders in which the database may return a set of rows: rows that the
\* orderBy does not tell apart come in any order
orderBy(rows, ids) ==
  {list \in [1..Cardinality(ids) -> ids] :
     /\ \A i, j \in DOMAIN list : i # j => list[i] # list[j]
     /\ \A i, j \in DOMAIN list : i < j => ~sortsBefore(rows[list[j]], rows[list[i]])}

\* take: n rows from the start of the list, or the last -n rows when n is negative
take(list, n) ==
  IF n >= 0
  THEN SubSeq(list, 1, MathMin(n, Len(list)))
  ELSE SubSeq(list, Len(list) - MathMin(0 - n, Len(list)) + 1, Len(list))

\* CardService.getStudyCards on an owned deck: prisma.card.findMany
getStudyCards_query ==
  /\ study.pc = "owned"
  /\ \E list \in orderBy(study.rows,
                         studyWhere(study.rows, study.deckId, study.memorizedOnly,
                                    study.unmemorizedOnly)) :
       study' = [study EXCEPT !.pc = "returned", !.out = take(list, study.limit)]
  /\ UNCHANGED <<stats, listing, shared, notFnVars>>

StudyNext == getStudyCards_query

\* ---------------------------------------------------------------------------
\* List operations: where, skip / take, count
\* ---------------------------------------------------------------------------

\* a row of the table a list operation reads: scope is the column its where clause
\* fixes (userId of a deck, deckId or deck.userId of a card), text the column searched
ListRow == [scope : 1..2, text : {"a", "b"}]

\* the list operations, and the search text they are given ("" for none)
ListCalls ==
  { [op |-> "getUserDecks", search |-> ""], [op |-> "getUserDecks", search |-> "A"],
    [op |-> "getDeckCards", search |-> ""], [op |-> "getDeckCards", search |-> "A"],
    [op |-> "searchDecks", search |-> "A"], [op |-> "searchCards", search |-> "A"] }

\* the where clause, built once and given to findMany and to count: the caller's
\* scope, and the search text when there is one
listWhere(rows, search) ==
  {r \in DOMAIN rows :
     /\ rows[r].scope = 1
     /\ search # "" => containsInsensitive(rows[r].text, search)}

\* the where clause as count receives it
countWhere(rows, search) == listWhere(rows, search)

RECURSIVE newestFirst(_)
\* orderBy: { createdAt: 'desc' }: ids are handed out in order of creation
newestFirst(ids) ==
  IF ids = {} THEN << >>
  ELSE LET top == CHOOSE r \in ids : \A o \in ids : o <= r
       IN <<top>> \o newestFirst(ids \ {top})

\* const skip = (page - 1) * limit
skipOf(page, limit) == (page - 1) * limit

\* findMany({ where, skip, take: limit, orderBy })
findMany(rows, search, page, limit) ==
  LET list == newestFirst(listWhere(rows, search))
  IN SubSeq(list, skipOf(page, limit) + 1,
            MathMin(skipOf(page, limit) + limit, Len(list)))

\* Math.ceil(total / limit) for a positive limit
MathCeil(total, limit) == (total + limit - 1) \div limit

\* searchDecks, getDeckCards, searchCards: Promise.all([findMany, count])
list_findManyAndCount(call) ==
  /\ listing.pc = "start"
  /\ call.op # "getUserDecks"
  /\ LET total == Cardinality(countWhere(listing.rows, call.search))
     IN listing' = [listing EXCEPT
                      !.pc = "returned", !.op = call.op, !.search = call.search,
                      !.items = findMany(listing.rows, call.search, listing.page,
                                         listing.limit),
                      !.total = total,
                      !.pages = MathCeil(total, listing.limit)]
  /\ UNCHANGED <<stats, study, shared, notFnVars>>

\* getUserDecks: await prisma.deck.findMany
getUserDecks_findMany(call) ==
  /\ listing.pc = "start"
  /\ call.op = "getUserDecks"
  /\ listing' = [listing EXCEPT
                   !.pc = "count", !.op = call.op, !.search = call.search,
                   !.items = findMany(listing.rows, call.search, listing.page,
                                      listing.limit)]
  /\ UNCHANGED <<stats, study, shared, notFnVars>>

\* another request creates a deck while getUserDecks is between its two queries
otherRequest_create(row) ==
  /\ listing.pc = "count"
  /\ Len(listing.rows) <= MaxRows
  /\ listing' = [listing EXCEPT !.rows = Append(@, row)]
  /\ UNCHANGED <<stats, study, shared, notFnVars>>

\* getUserDecks: await prisma.deck.count
getUserDecks_count ==
  /\ listing.pc = "count"
  /\ LET total == Cardinality(countWhere(listing.rows, listing.search))
     IN listing' = [listing EXCEPT !.pc = "returned", !.total = total,
                                   !.pages = MathCeil(total, listing.limit)]
  /\ UNCHANGED <<stats, study, shared, notFnVars>>

ListNext ==
  \/ \E call \in ListCalls : list_findManyAndCount(call)
  \/ \E call \in ListCalls : getUserDecks_findMany(call)
  \/ \E row \in ListRow : otherRequest_create(row)
  \/ getUserDecks_count

\* ---------------------------------------------------------------------------
\* The shared client under concurrent requests (config/database.js)
\* ---------------------------------------------------------------------------

\* the steps of ensureConnection from $disconnect to the final liveness query
ReconnectSteps == {"disconnect", "connect", "query2"}

EnsureSteps == {"query1"} \cup ReconnectSteps

\* request r goes on
sharedStep(r, req, isConnected) ==
  /\ shared' = [connected |-> isConnected, reqs |-> [shared.reqs EXCEPT ![r] = req]]
  /\ UNCHANGED <<stats, study, listing, notFnVars>>

\* a request reaches a service call wrapped in withRetry (default maxRetries = 2):
\* the loop invokes operation on the client
request_withRetry(r) ==
  /\ shared.reqs[r].pc = "idle"
  /\ loopCondition(1, 2)
  /\ sharedStep(r, [pc |-> "operation", kind |-> "withRetry", attempt |-> 1],
                shared.connected)

\* a request reaches a service call that goes to prisma directly
request_prisma(r) ==
  /\ shared.reqs[r].pc = "idle"
  /\ sharedStep(r, [pc |-> "operation", kind |-> "prisma", attempt |-> 0],
                shared.connected)

\* the operation of request r settles; a retried failure enters ensureConnection,
\* whose first liveness query is issued in the same turn
request_operation(r, ok, error) ==
  /\ shared.reqs[r].pc = "operation"
  /\ LET req == shared.reqs[r]
     IN IF ok
        THEN sharedStep(r, ReqIdle, TRUE)
        ELSE IF req.kind = "withRetry" /\ shouldRetry(error, req.attempt, 2)
             THEN sharedStep(r, [req EXCEPT !.pc = "query1"], shared.connected)
             ELSE sharedStep(r, ReqIdle, shared.connected)

\* one step of the ensureConnection of request r settles; when ensureConnection
\* returns, withRetry sets its timer and warmupConnection ends
request_ensureConnection(r, ok, error) ==
  /\ shared.reqs[r].pc \in EnsureSteps
  /\ LET req == shared.reqs[r]
         next == ensureNext(req.pc, ok)
         isConnected == CASE req.pc \in {"query1", "query2", "connect"} /\ ok -> TRUE
                          [] req.pc = "disconnect" /\ ok -> FALSE
                          [] OTHER -> shared.connected
     IN CASE next = "returned" /\ req.kind = "withRetry" ->
               sharedStep(r, [req EXCEPT !.pc = "wait"], isConnected)
          [] next \in {"returned", "threw"} /\ ~(next = "returned" /\ req.kind = "withRetry") ->
               sharedStep(r, ReqIdle, isConnected)
          [] OTHER -> sharedStep(r, [req EXCEPT !.pc = next], isConnected)

\* the timer of withRetry fires: the loop invokes operation again
request_setTimeout(r) ==
  /\ shared.reqs[r].pc = "wait"
  /\ loopCondition(shared.reqs[r].attempt + 1, 2)
  /\ sharedStep(r, [shared.reqs[r] EXCEPT !.pc = "operation", !.attempt = @ + 1],
                shared.connected)

SharedNext ==
  \E r \in Reqs :
    \/ request_withRetry(r)
    \/ request_prisma(r)
    \/ request_operation(r, TRUE, NoError)
    \/ \E error \in Errors : request_operation(r, FALSE, error)
    \/ request_ensureConnection(r, TRUE, NoError)
    \/ \E error \in ConnErrors : request_ensureConnection(r, FALSE, error)
    \/ request_setTimeout(r)

vars == <<decks, cards, nextDeckId, nextCardId, proc, ret, nops, gw, ens, connected,
          users, areq, aret, aops, build, clock, lastActivity, lastDbOp, timer, cb,
          life, stats, study, listing, shared>>

Init == SvcInit /\ GwInit /\ AuthInit /\ KaInit /\ FnInit

Next == SvcNext

Spec == Init /\ [][Next]_vars

NextGateway == GwNext

SpecGateway == Init /\ [][NextGateway]_vars

NextAuth == AuthNext

SpecAuth == Init /\ [][NextAuth]_vars

NextKeepAlive == KaNext

\* the keep-alive timer is checked for each version of the gateway module
InitKeepAlive == SvcInit /\ AuthInit /\ FnInit /\ \E b \in Builds : KaLoad(b)

SpecKeepAlive == InitKeepAlive /\ [][NextKeepAlive]_vars

NextStats == StatsNext

\* the statistics are computed for every deck of up to MaxTotal cards, with a cached
\* cardCount that agrees with the rows or not
InitStats ==
  /\ SvcInit /\ GwInit /\ AuthInit /\ KaInit
  /\ study = StudyIdle /\ listing = ListIdle /\ shared = SharedIdle
  /\ \E t \in 0..MaxTotal, m \in 0..MaxTotal, cardCount \in 0..1 :
       /\ m <= t
       /\ stats = StatsInput(t, m, cardCount * t)

SpecStats == InitStats /\ [][NextStats]_vars

NextStudy == StudyNext

\* getStudyCards is called on deck 1, which the caller owns, for every Card table of
\* MaxStudy rows and every limit the controller can pass (parseInt(limit) || 20 lets
\* a negative limit through, and no validation sits on the route)
InitStudy ==
  /\ SvcInit /\ GwInit /\ AuthInit /\ KaInit
  /\ stats = StatsIdle /\ listing = ListIdle /\ shared = SharedIdle
  /\ \E rows \in [1..MaxStudy -> StudyRow], limit \in (0 - 1)..MaxLimit,
        memorizedOnly \in BOOLEAN, unmemorizedOnly \in BOOLEAN :
       study = [StudyIdle EXCEPT !.pc = "owned", !.rows = rows, !.deckId = 1,
                                 !.limit = limit, !.memorizedOnly = memorizedOnly,
                                 !.unmemorizedOnly = unmemorizedOnly]

SpecStudy == InitStudy /\ [][NextStudy]_vars

NextList == ListNext

\* a list operation is called with a validated page and limit on every table of up
\* to MaxRows rows
InitList ==
  /\ SvcInit /\ GwInit /\ AuthInit /\ KaInit
  /\ stats = StatsIdle /\ study = StudyIdle /\ shared = SharedIdle
  /\ \E n \in 0..MaxRows, page \in 1..MaxPage, limit \in 1..MaxLimit :
       \E rows \in [1..n -> ListRow] :
         listing = [ListIdle EXCEPT !.pc = "start", !.rows = rows, !.page = page,
                                    !.limit = limit]

SpecList == InitList /\ [][NextList]_vars

NextShared == SharedNext

\* the module has just been loaded: warmupConnection has called ensureConnection,
\* whose first liveness query is in flight, and requests arrive from then on
InitShared ==
  /\ SvcInit /\ GwInit /\ AuthInit /\ KaInit
  /\ stats = StatsIdle /\ study = StudyIdle /\ listing = ListIdle
  /\ shared = [SharedIdle EXCEPT
                 !.reqs[1] = [pc |-> "query1", kind |-> "warmup", attempt |-> 0]]

SpecShared == InitShared /\ [][NextShared]_vars

\* ---------------------------------------------------------------------------
\* Properties of the Deck / Card services (checked under Spec)
\* ---------------------------------------------------------------------------
DeckByIdOps == {"getDeckById", "updateDeck", "deleteDeck", "getDeckStats", "createCard",
                "getDeckCards", "getStudyCards", "bulkUpdateMemorized", "getCardStats"}

CardByIdOps == {"getCardById", "updateCard", "deleteCard", "toggleMemorized"}

\* C1: when a createCard or deleteCard call returns successfully, the cardCount of
\* the deck it targeted equals the number of Card rows of that deck.
C1_CardCountAtReturn ==
  (ret.op \in {"createCard", "deleteCard"} /\ ret.status = "ok")
    => /\ ret.deckId \in DOMAIN decks
       /\ decks[ret.deckId].cardCount = cardCountOf(ret.deckId)

\* C2: a by-id operation issued by a user on a deck (or on a card of a deck) that
\* exists and belongs to somebody else answers 'Deck not found' / 'Card not found',
\* carries no deck or card data, and the step leaves the Deck and Card tables as
\* they were.
C2_NonOwnerNotFound ==
  [][ /\ ( /\ ret'.op \in DeckByIdOps
           /\ ret'.deckId \in DOMAIN decks
           /\ decks[ret'.deckId].userId # ret'.userId )
         => /\ ret'.status = "Deck not found"
            /\ ret'.decks = {} /\ ret'.cards = {} /\ ret'.count = 0
            /\ decks' = decks /\ cards' = cards
      /\ ( /\ ret'.op \in CardByIdOps
           /\ ret'.cardId \in DOMAIN cards
           /\ cards[ret'.cardId].deckId \in DOMAIN decks
           /\ decks[cards[ret'.cardId].deckId].userId # ret'.userId )
         => /\ ret'.status = "Card not found"
            /\ ret'.decks = {} /\ ret'.cards = {} /\ ret'.count = 0
            /\ decks' = decks /\ cards' = cards
    ]_vars

\* C2 witness: a user was just refused a card of somebody else's deck, which holds cards
C2_Witness ==
  /\ ret.op = "deleteCard"
  /\ ret.status = "Card not found"
  /\ ret.cardId \in DOMAIN cards
  /\ cards[ret.cardId].deckId \in DOMAIN decks
  /\ decks[cards[ret.cardId].deckId].userId # ret.userId
  /\ decks[cards[ret.cardId].deckId].cardCount = 1

\* C8: once no createCard or deleteCard (nor any other call) is in flight, every
\* deck's cardCount equals the number of its Card rows.
C8_CardCountWhenQuiescent ==
  (\A p \in Procs : proc[p].pc = "idle")
    => \A d \in DOMAIN decks : decks[d].cardCount = cardCountOf(d)

\* the requests that have read a card's memorized flag and have not yet written it
PendingToggles(c) ==
  {q \in Procs : proc[q].pc = "toggleMemorized_update" /\ proc[q].cardId = c}

\* C9: a toggle's write to a card that still exists succeeds and stores the negation
\* of the value that toggle read, whatever was written in between; so when another
\* toggle that read the same value is still pending, the stored value is already
\* what that toggle will write (one net flip), and memorized stays a boolean.
C9_LastWriteWins ==
  [][ \A p \in Procs :
        ( /\ proc[p].pc = "toggleMemorized_update"
          /\ proc'[p].pc = "idle"
          /\ proc[p].cardId \in DOMAIN cards )
        => /\ ret'.status = "ok"
           /\ proc[p].cardId \in DOMAIN cards'
           /\ cards'[proc[p].cardId].memorized = ~proc[p].memorized
           /\ cards'[proc[p].cardId].memorized \in BOOLEAN
           /\ \A q \in PendingToggles(proc[p].cardId) \ {p} :
                proc[q].memorized = proc[p].memorized
                  => cards'[proc[p].cardId].memorized = ~proc'[q].memorized
    ]_vars

\* C9 witness: two toggles read the same value, one of them has just written and
\* returned, the other has yet to write
C9_Witness ==
  /\ ret.op = "toggleMemorized"
  /\ ret.status = "ok"
  /\ \E q \in PendingToggles(ret.cardId) :
       /\ ret.cardId \in DOMAIN cards
       /\ cards[ret.cardId].memorized = ~proc[q].memorized

\* C10: a toggle that writes a card nobody wrote since the toggle read it stores and
\* returns the negation of the stored value, a further such toggle would store the
\* original value again, and the write changes neither the card's frontText,
\* backText and deckId, nor any other card, nor any deck (cardCount included).
C10_ToggleFlips ==
  [][ \A p \in Procs :
        ( /\ proc[p].pc = "toggleMemorized_update"
          /\ proc'[p].pc = "idle"
          /\ proc[p].cardId \in DOMAIN cards
          /\ cards[proc[p].cardId].memorized = proc[p].memorized )
        => LET c == proc[p].cardId
           IN /\ ret'.status = "ok"
              /\ cards'[c].memorized = ~cards[c].memorized
              /\ toggledValue(cards'[c].memorized) = cards[c].memorized
              /\ ret'.cards = {[id |-> c, frontText |-> cards[c].frontText,
                                backText |-> cards[c].backText,
                                memorized |-> ~cards[c].memorized,
                                deckId |-> cards[c].deckId]}
              /\ cards'[c].frontText = cards[c].frontText
              /\ cards'[c].backText = cards[c].backText
              /\ cards'[c].deckId = cards[c].deckId
              /\ DOMAIN cards' = DOMAIN cards
              /\ \A x \in DOMAIN cards \ {c} : cards'[x] = cards[x]
              /\ decks' = decks
    ]_vars

\* C10 witness: a toggle has just returned the card with the flag it stored, and no
\* other toggle of that card is pending
C10_Witness ==
  /\ ret.op = "toggleMemorized"
  /\ ret.status = "ok"
  /\ ret.cardId \in DOMAIN cards
  /\ PendingToggles(ret.cardId) = {}
  /\ ret.cards = {CardRow(ret.cardId)}
  /\ cards[ret.cardId].memorized = FALSE

\* C11: the updateMany of a bulkUpdateMemorized(U, D, cardIds, m) call sets memorized
\* to m on exactly the cards whose id is in cardIds and whose deckId is D, leaves
\* every other card (a card of cardIds in another deck included) and every deck as
\* it was, and returns as updatedCount the number of cards it set, which is smaller
\* than the number of ids when an id is foreign or absent.
C11_BulkUpdateExact ==
  [][ \A p \in Procs :
        (proc[p].pc = "bulkUpdateMemorized_updateMany" /\ proc'[p].pc = "idle")
        => LET ids == proc[p].data.cardIds
               D == proc[p].deckId
               m == proc[p].data.memorized
               target == {c \in DOMAIN cards : c \in ids /\ cards[c].deckId = D}
           IN /\ ret'.status = "ok"
              /\ ret'.op = "bulkUpdateMemorized"
              /\ ret'.count = Cardinality(target)
              /\ DOMAIN cards' = DOMAIN cards
              /\ \A c \in target : cards'[c] = [cards[c] EXCEPT !.memorized = m]
              /\ \A c \in DOMAIN cards \ target : cards'[c] = cards[c]
              /\ decks' = decks
              /\ (\E c \in ids : c \notin target) => ret'.count < Cardinality(ids)
              /\ (\A c \in ids : c \in target) => ret'.count = Cardinality(ids)
    ]_vars

\* C11 witness: a bulk update that named a card of another deck has returned a count
\* smaller than the number of ids, and that card does not carry the requested flag
C11_Witness ==
  /\ ret.op = "bulkUpdateMemorized"
  /\ ret.status = "ok"
  /\ ret.count < Cardinality(ret.cardIds)
  /\ \E c \in DOMAIN cards :
       /\ c \in ret.cardIds
       /\ cards[c].deckId # ret.deckId
       /\ cards[c].memorized = FALSE
  /\ [cardIds |-> ret.cardIds, memorized |-> TRUE] \in BulkInputs

\* the response to a request for a deck or card the caller cannot see: it depends
\* on the request only
Refusal(op, userId, deckId, cardId, cardIds, status) ==
  [NoRet EXCEPT !.op = op, !.userId = userId, !.deckId = deckId, !.cardId = cardId,
                !.cardIds = cardIds, !.status = status]

\* the deck is not the caller's: it does not exist, or it exists under another owner
DeckHidden(d, u) == d \notin DOMAIN decks \/ decks[d].userId # u

\* the card is not the caller's: it does not exist, or its deck has another owner
CardHidden(c, u) == c \notin DOMAIN cards \/ DeckHidden(cards[c].deckId, u)

\* C14: a by-id Deck or Card operation of user U on an id that U does not own has one
\* and the same outcome whether the deck (or card) exists under another owner or
\* does not exist at all: the response is the 'Deck not found' / 'Card not found'
\* refusal determined by the request alone (for searchCards: a result without any
\* card of such a deck, empty when the search is confined to it), the call ends
\* with its first lookup, and nothing is written.
C14_ExistenceNotObservable ==
  [][ (ret' # NoRet /\ proc' = proc) =>
        /\ (ret'.op \in DeckByIdOps /\ DeckHidden(ret'.deckId, ret'.userId))
             => /\ ret' = Refusal(ret'.op, ret'.userId, ret'.deckId, 0, ret'.cardIds,
                                  "Deck not found")
                /\ decks' = decks /\ cards' = cards
        /\ (ret'.op \in CardByIdOps /\ CardHidden(ret'.cardId, ret'.userId))
             => /\ ret' = Refusal(ret'.op, ret'.userId, 0, ret'.cardId, {}, "Card not found")
                /\ decks' = decks /\ cards' = cards
        /\ ret'.op = "searchCards"
             => /\ \A r \in ret'.cards : ~DeckHidden(r.deckId, ret'.userId)
                /\ (ret'.deckId # 0 /\ DeckHidden(ret'.deckId, ret'.userId))
                     => ret' = Refusal("searchCards", ret'.userId, ret'.deckId, 0, {}, "ok")
                /\ decks' = decks /\ cards' = cards
    ]_vars

\* C14 witness: a search confined to somebody else's deck, which holds a card that
\* matches the query, has just returned nothing
C14_Witness ==
  /\ ret.op = "searchCards"
  /\ ret.status = "ok"
  /\ ret.cards = {} /\ ret.count = 0
  /\ ret.deckId \in DOMAIN decks
  /\ decks[ret.deckId].userId # ret.userId
  /\ \E c \in cardsOf(ret.deckId) : containsInsensitive(cards[c].frontText, "A")

\* C17: in every reachable state the deckId of every Card is the id of an existing
\* Deck, and the cards of that deck are exactly the cards that refer to it; this
\* covers deleteDeck interleaved with the three steps of createCard.
C17_NoOrphanCards ==
  /\ \A c \in DOMAIN cards : cards[c].deckId \in DOMAIN decks
  /\ (ret.op = "deleteDeck" /\ ret.status = "ok")
       => /\ ret.deckId \notin DOMAIN decks
          /\ cardsOf(ret.deckId) = {}

\* C17 witness: a createCard passed its ownership check, the deck was deleted, and the
\* insert has just been refused
C17_Witness ==
  /\ ret.op = "createCard"
  /\ ret.status = "P2003"
  /\ ret.deckId \notin DOMAIN decks
  /\ cardsOf(ret.deckId) = {}

\* ---------------------------------------------------------------------------
\* Properties of the persistence gateway (checked under SpecGateway)
\* ---------------------------------------------------------------------------

\* a transient connection failure: code P1001, or a message that contains one of
\* the three connection phrases
TransientFailure(error) ==
  \/ error.code = "P1001"
  \/ \E i \in DOMAIN error.message :
       error.message[i] \in {"Can't reach database", "Connection terminated",
                             "Connection closed"}

ThroughWithRetry == gw.site.wrapped

AtMost(n) == IF n > 0 THEN n ELSE 0

\* what precedes position i of the log: a transient failure of operation, a
\* successful ensureConnection, and the wait
RetryPrelude(log, i) ==
  /\ i >= 3
  /\ log[i].e = "wait"
  /\ log[i - 1].e = "ensureConnection" /\ log[i - 1].ok
  /\ log[i - 2].e = "operation" /\ ~log[i - 2].ok /\ TransientFailure(log[i - 2].error)

\* C3: withRetry invokes operation at most maxRetries times; every invocation after
\* the first comes right after a transient failure of the previous invocation, a
\* successful ensureConnection and the wait, in this order; an invocation that
\* succeeds ends the call, which returns that invocation's result.
C3_RetryOrder ==
  ThroughWithRetry =>
    /\ gw.invocations <= AtMost(gw.maxRetries)
    /\ Cardinality({i \in DOMAIN gw.log : gw.log[i].e = "operation"}) <= gw.invocations
    /\ \A i \in DOMAIN gw.log :
         (gw.log[i].e = "operation" /\ i > 1) => RetryPrelude(gw.log, i - 1)
    /\ (gw.pc = "operation" /\ gw.invocations > 1) => RetryPrelude(gw.log, Len(gw.log))
    /\ \A i \in DOMAIN gw.log :
         (gw.log[i].e = "operation" /\ gw.log[i].ok)
           => i = Len(gw.log) /\ gw.pc = "returned" /\ gw.value = gw.invocations
    /\ (gw.pc = "returned" /\ gw.invocations >= 1)
         => /\ gw.log # << >>
            /\ gw.log[Len(gw.log)].e = "operation" /\ gw.log[Len(gw.log)].ok

\* C3 witness: the third invocation succeeded after two retries
C3_Witness ==
  /\ ThroughWithRetry
  /\ gw.pc = "returned"
  /\ gw.invocations = 3
  /\ gw.value = 3

\* C4: a non-transient failure of operation ends withRetry at once with that very
\* error: nothing follows it in the call (no ensureConnection, no wait, no further
\* invocation), whatever the attempt number.
C4_NonTransientPropagates ==
  ThroughWithRetry =>
    \A i \in DOMAIN gw.log :
      (gw.log[i].e = "operation" /\ ~gw.log[i].ok /\ ~TransientFailure(gw.log[i].error))
        => /\ i = Len(gw.log)
           /\ gw.pc = "threw"
           /\ gw.error = gw.log[i].error
           /\ gw.invocations = gw.log[i].error.n
           /\ ens.caller = "withRetry" => Settled(ens.pc)

\* C4 witness: the second of three allowed attempts failed with a constraint violation
C4_Witness ==
  /\ ThroughWithRetry
  /\ gw.pc = "threw"
  /\ gw.maxRetries = 3
  /\ gw.attempt = 2
  /\ gw.error.code = "P2002"
  /\ gw.error.what = "operation"

\* C5: when withRetry throws and every failure of operation was a transient
\* connection error, operation has been invoked exactly maxRetries times and the
\* error thrown is the one of the last invocation.
C5_SurfacedOnlyWhenExhausted ==
  ( /\ ThroughWithRetry
    /\ gw.pc = "threw"
    /\ \A i \in DOMAIN gw.log :
         (gw.log[i].e = "operation" /\ ~gw.log[i].ok) => TransientFailure(gw.log[i].error) )
    => /\ gw.invocations = gw.maxRetries
       /\ gw.error.what = "operation"
       /\ gw.error.n = gw.invocations

\* C6: a database call of a service operation that met exactly one transient
\* connection error, and no other error, does not surface it to the caller.
C6_SingleTransientRetried ==
  (gw.site \in CallSites /\ gw.pc = "threw")
    => ~(gw.errors = 1 /\ TransientFailure(gw.error))

StepNames(steps) == [i \in DOMAIN steps |-> steps[i].e]

StepOks(steps) == [i \in DOMAIN steps |-> steps[i].ok]

\* C7: ensureConnection returns after the first liveness query when it succeeds,
\* without disconnecting; otherwise it runs one cycle $disconnect, $connect,
\* liveness query in this order, returns if all three succeed and throws the error
\* of the first step of the cycle that fails; it returns only after a liveness
\* query that succeeded.
C7_EnsureConnection ==
  LET s == ens.steps
      n == Len(s)
      cycle == <<"query1", "disconnect", "connect", "query2">>
  IN /\ n <= 4
     /\ StepNames(s) = SubSeq(cycle, 1, n)
     /\ \A i \in DOMAIN s : (i > 1 /\ i < n) => s[i].ok
     /\ n >= 2 => ~s[1].ok
     /\ ens.pc = "returned"
          => /\ n \in {1, 4}
             /\ \A i \in DOMAIN s : i > 1 => s[i].ok
             /\ s[n].e \in {"query1", "query2"} /\ s[n].ok
             /\ n = 1 => connected
     /\ ens.pc = "threw"
          => /\ n \in {2, 3, 4}
             /\ ~s[n].ok
             /\ ens.error = s[n].error
             /\ ens.error.what = cycle[n]
     /\ (ens.pc \in {"disconnect", "connect", "query2"})
          => /\ cycle[n + 1] = ens.pc
             /\ n = 1 \/ s[n].ok

\* C7 witness: the liveness query failed and the reconnect cycle succeeded
C7_Witness ==
  /\ ens.pc = "returned"
  /\ StepNames(ens.steps) = <<"query1", "disconnect", "connect", "query2">>
  /\ StepOks(ens.steps) = <<FALSE, TRUE, TRUE, TRUE>>

\* ---------------------------------------------------------------------------
\* Properties of the Auth service and the middleware (checked under SpecAuth)
\* ---------------------------------------------------------------------------

\* a user row is created only by a register call that succeeded, and holds that
\* call's email in lowercase until a profile update replaces it
HeldIgnoringCase(email) == \E u \in DOMAIN users : toLowerCase(users[u].email) = toLowerCase(email)

LoginRefusal(x) ==
  [NoARet EXCEPT !.op = "login", !.email = x.email, !.status = 401,
                 !.message = "Invalid email or password"]

\* C13: a login with email and password that fails, because no user holds the
\* email or because the password does not match the stored hash, gets the same
\* response in both cases (401 'Invalid email or password', no user, no token),
\* and changes no state.
C13_LoginFailureUniform ==
  [][ \A p \in Procs, x \in LoginInputs :
        ( /\ login(p, x)
          /\ \/ userByEmail(toLowerCase(x.email)) = {}
             \/ \E u \in userByEmail(toLowerCase(x.email)) :
                  ~bcryptCompare(x.password, users[u].password) )
        => /\ aret' = LoginRefusal(x)
           /\ aret'.token = NoToken
           /\ users' = users
           /\ areq'[p] = AIdle
    ]_vars

\* C13 witness: a login with the wrong password for an existing account was just
\* refused while another email is held by nobody
C13_Witness ==
  /\ aret.op = "login"
  /\ aret.status = 401
  /\ aret.message = "Invalid email or password"
  /\ userByEmail(toLowerCase(aret.email)) # {}
  /\ userByEmail("b@x.io") = {}

\* C15: authenticateToken calls next() only for a token that verifies and whose
\* userId is the id of an existing user, and then req.user is that user; without a
\* token, with an invalid or an expired token, or when no user has the token's
\* userId, the response is 401, next() is not called and req.user is not set.
C15_AuthenticateToken ==
  [][ /\ \A p \in Procs :
           authenticateToken_verify(p, FALSE, NoToken)
           => aret'.status = 401 /\ ~aret'.next /\ aret'.reqUser = NoUser
      /\ \A p \in Procs, t \in Tokens :
           authenticateToken_verify(p, TRUE, t)
           => IF t.signed /\ ~t.expired
              THEN aret' = NoARet /\ areq'[p].pc = "authenticateToken_findUnique"
              ELSE aret'.status = 401 /\ ~aret'.next /\ aret'.reqUser = NoUser
      /\ \A p \in Procs :
           authenticateToken_findUnique(p)
           => /\ areq[p].token.signed /\ ~areq[p].token.expired
              /\ IF areq[p].userId \in DOMAIN users
                 THEN /\ aret'.next
                      /\ aret'.reqUser = UserView(areq[p].userId)
                      /\ aret'.status = 0
                 ELSE aret'.status = 401 /\ ~aret'.next /\ aret'.reqUser = NoUser
      /\ (aret'.next \/ aret'.reqUser # NoUser)
           => \E p \in Procs :
                /\ areq[p].pc = "authenticateToken_findUnique"
                /\ areq'[p].pc = "idle"
                /\ areq[p].userId \in DOMAIN users
    ]_vars

\* C15 witness: a token that verifies names a user that does not exist (while another
\* user does) and the request was just refused
C15_Witness ==
  /\ aret.op = "authenticateToken"
  /\ aret.status = 401
  /\ aret.message = "User not found"
  /\ aret.userId \notin DOMAIN users
  /\ users # << >>
  /\ ~aret.next

\* C16: changePassword replaces the stored hash only when oldPassword verifies
\* against the hash stored at the time of the replacement; a call whose oldPassword
\* does not verify fails with 'Invalid current password' and leaves the hash as it
\* was.
C16_ChangePasswordVerified ==
  [][ /\ \A p \in Procs :
           ( /\ areq[p].pc = "changePassword_update"
             /\ areq'[p].pc = "idle"
             /\ aret'.status = 200 )
           => bcryptCompare(areq[p].password, users[areq[p].userId].password)
      /\ \A p \in Procs, u \in Users, x \in ChangePasswordInputs :
           ( /\ changePassword_findUnique(p, u, x)
             /\ u \in DOMAIN users
             /\ ~bcryptCompare(x.oldPassword, users[u].password) )
           => /\ aret'.message = "Invalid current password"
              /\ users' = users
    ]_vars

\* every stored email is in lowercase and held by one user
EmailsLowercaseUnique ==
  /\ \A u \in DOMAIN users : users[u].email = toLowerCase(users[u].email)
  /\ \A u, v \in DOMAIN users : users[u].email = users[v].email => u = v

\* C18: after every step of any interleaving of register and updateProfile calls
\* every stored email is in lowercase and no two users hold the same email; an
\* updateProfile whose email is held by a different user when the call looks it up
\* fails with 400 'Email already exists' and changes nothing.
C18_EmailsLowercaseUnique ==
  [][ /\ EmailsLowercaseUnique'
      /\ \A p \in Procs, u \in Users, x \in ProfileInputs :
           ( /\ updateProfile_findUnique(p, u, x)
             /\ x.hasEmail
             /\ \E v \in DOMAIN users : v # u /\ users[v].email = toLowerCase(x.email) )
           => /\ aret'.status = 400
              /\ aret'.message = "Email already exists"
              /\ users' = users
              /\ areq'[p] = AIdle
    ]_vars

\* C18 witness: two users are registered and one was just refused the other's email,
\* typed in capitals
C18_Witness ==
  /\ aret.op = "updateProfile"
  /\ aret.status = 400
  /\ aret.email = "A@x.io"
  /\ Cardinality(DOMAIN users) = 2
  /\ \E v \in DOMAIN users : v # aret.userId /\ users[v].email = "a@x.io"

\* ---------------------------------------------------------------------------
\* Properties of the keep-alive timer (checked under SpecKeepAlive)
\* ---------------------------------------------------------------------------

\* a service called the database less than the activity window before now
RecentDbOp == lastDbOp >= 0 /\ clock - lastDbOp < ActivityWindow

\* C19: at each keep-alive tick the callback issues no liveness query when a service
\* called the database within the 8 minutes before the tick, and exactly one
\* liveness query otherwise.
C19_PingSkippedOnActivity ==
  [][ (timer'.fired = timer.fired + 1)
        => IF RecentDbOp
           THEN cb'.queries = 0 /\ cb'.pc = "idle"
           ELSE cb'.queries = 1 /\ cb'.pc = "ping"
    ]_vars

\* C20: when the liveness query of a tick fails, the failure is logged and
\* ensureConnection is called exactly once; whether that call returns or throws,
\* the callback ends without throwing and the timer is left as it was, so the next
\* tick fires.
C20_PingFailureReconnects ==
  [][ /\ (cb.pc = "ping" /\ cb'.pingFailed)
           => /\ cb'.log = <<"ping failed">>
              /\ cb'.reconnects = 1
              /\ cb'.pc = "reconnect"
              /\ ens' = ensureConnectionEnter("keepAlive")
              /\ ~cb'.threw
              /\ timer' = timer
      /\ (cb.pc = "reconnect" /\ cb'.pc = "idle")
           => /\ cb'.reconnects = 1
              /\ cb'.log \in {<<"ping failed", "reconnected">>,
                              <<"ping failed", "reconnect failed">>}
              /\ ~cb'.threw
              /\ timer' = timer
      /\ cb'.reconnects <= 1
    ]_vars

\* ---------------------------------------------------------------------------
\* Properties of the backoff of withRetry (checked under SpecGateway)
\* ---------------------------------------------------------------------------

\* C21: the wait inserted by withRetry before the retry that follows failed
\* attempt k (k >= 1) is min(1000 * 2^(k-1), 5000) milliseconds: 1000 after the
\* first failed attempt, doubling with each further attempt, never above 5000.
C21_BackoffDelay ==
  gw.pc = "wait" => gw.delay = MathMin(1000 * 2^(gw.attempt - 1), 5000)

\* ---------------------------------------------------------------------------
\* Properties of startup and shutdown (checked under SpecKeepAlive)
\* ---------------------------------------------------------------------------

roundedPercent(m, t) == (200 * m + t) \div (2 * t)

\* C24: for a deck with t cards of which m are memorized, getDeckStats and
\* getCardStats both return totalCards = t, memorizedCards = m, unmemorizedCards =
\* t - m and progressPercentage = 0 when t = 0 and round(100 * m / t) otherwise,
\* so 0 <= progressPercentage <= 100; t and m come from the card rows, never from
\* the cached cardCount.
C24_Stats ==
  stats.pc = "returned" =>
    LET t == Len(stats.cards)
        m == filterLength(stats.cards, TRUE)
    IN /\ stats.out.totalCards = t
       /\ stats.out.memorizedCards = m
       /\ stats.out.unmemorizedCards = t - m
       /\ stats.out.progressPercentage = IF t = 0 THEN 0 ELSE roundedPercent(m, t)
       /\ stats.out.progressPercentage \in 0..100

\* ---------------------------------------------------------------------------
\* Properties of the study session (checked under SpecStudy)
\* ---------------------------------------------------------------------------

\* C25: getStudyCards on an owned deck returns at most limit cards of that deck,
\* every unmemorized card before every memorized one and, within each group, in
\* ascending updatedAt order; the result is the first limit cards of that order, so
\* no omitted card of the deck sorts before a returned one.
C25_StudyOrder ==
  study.pc = "returned" =>
    LET out == study.out
        returned == {out[i] : i \in DOMAIN out}
        ofDeck == {c \in DOMAIN study.rows : study.rows[c].deckId = study.deckId}
    IN /\ Len(out) <= study.limit
       /\ returned \subseteq ofDeck
       /\ \A i, j \in DOMAIN out : i # j => out[i] # out[j]
       /\ \A i, j \in DOMAIN out :
            i < j => ~sortsBefore(study.rows[out[j]], study.rows[out[i]])
       /\ Len(out) = MathMin(study.limit, Cardinality(ofDeck))
       /\ \A c \in ofDeck \ returned, r \in returned :
            ~sortsBefore(study.rows[c], study.rows[r])

\* ---------------------------------------------------------------------------
\* Properties of the list operations (checked under SpecList)
\* ---------------------------------------------------------------------------

\* C26: for every list operation (getUserDecks, searchDecks, getDeckCards,
\* searchCards) with page p >= 1 and limit l >= 1, the returned items are exactly
\* the rows at offsets (p-1)*l to p*l-1 of the rows matching the filter in the
\* requested order, total is the number of rows matching that same filter, pages =
\* ceil(total / l), and the number of items is min(l, max(0, total - (p-1)*l)).
C26_Pagination ==
  listing.pc = "returned" =>
    LET p == listing.page
        l == listing.limit
        matching == newestFirst(listWhere(listing.rows, listing.search))
        inPage == {i \in DOMAIN matching : (p - 1) * l <= i - 1 /\ i - 1 <= p * l - 1}
        rest == listing.total - (p - 1) * l
    IN /\ Len(listing.items) = Cardinality(inPage)
       /\ \A k \in DOMAIN listing.items : listing.items[k] = matching[(p - 1) * l + k]
       /\ listing.total = Len(matching)
       /\ listing.pages * l >= listing.total /\ (listing.pages - 1) * l < listing.total
       /\ Len(listing.items) = MathMin(l, IF rest > 0 THEN rest ELSE 0)

\* ---------------------------------------------------------------------------
\* Properties of logout (checked under SpecAuth)
\* ---------------------------------------------------------------------------

\* what authenticateToken answers for a token, from the token and the User table alone
Accepted(token) == jwtVerify(token) = "decoded" /\ token.userId \in DOMAIN users

\* C27: logout is a no-op acknowledgement: it returns success and changes no
\* stored or in-process state, so a token that authenticateToken accepted before
\* logout is still accepted after logout until it expires.
C27_LogoutNoOp ==
  [][ /\ \A p \in Procs, u \in Users :
           logout(p, u)
           => /\ aret'.status = 200 /\ aret'.message = "Logout successful"
              /\ users' = users
              /\ areq' = areq
              /\ \A t \in Tokens : Accepted(t)' = Accepted(t)
      /\ \A p \in Procs :
           authenticateToken_findUnique(p) => (aret'.next <=> Accepted(areq[p].token))
    ]_vars

\* a request carrying a user's token has passed jwt.verify and awaits the lookup of
\* its user when that user's logout is acknowledged
C27_Witness ==
  /\ aret.op = "logout" /\ aret.status = 200
  /\ aret.userId \in DOMAIN users
  /\ \E p \in Procs :
       /\ areq[p].pc = "authenticateToken_findUnique"
       /\ areq[p].userId = aret.userId
       /\ Accepted(areq[p].token)

\* ---------------------------------------------------------------------------
\* Properties of withRetry for every maxRetries (checked under SpecGateway)
\* ---------------------------------------------------------------------------

\* C28: for every integer maxRetries >= 0, withRetry executes operation at least
\* once and returns normally only with the result of an invocation of operation
\* that succeeded; it never returns a value without operation having been executed.
C28_ReturnsOperationResult ==
  (ThroughWithRetry /\ gw.pc = "returned")
    => /\ gw.invocations >= 1
       /\ gw.value = gw.invocations
       /\ gw.log # << >>
       /\ gw.log[Len(gw.log)] = Event("operation", TRUE, NoTag)

\* ---------------------------------------------------------------------------
\* Missing targets of by-id mutations (checked under Spec)
\* ---------------------------------------------------------------------------

ByIdMutations ==
  {"updateDeck", "deleteDeck", "createCard", "updateCard", "deleteCard", "toggleMemorized"}

NotFoundConditions == {"Deck not found", "Card not found"}

\* C29: a by-id Deck or Card mutation that fails because its target does not exist
\* fails with 'Deck not found' / 'Card not found', also when the target was deleted
\* by a concurrent request between the ownership lookup and the write, and the
\* failed operation leaves no card row behind.
C29_MissingTargetNotFound ==
  (ret.op \in ByIdMutations /\ ret.status # "ok")
    => /\ ret.status \in NotFoundConditions
       /\ ret.op = "createCard" => ret.cardId \notin DOMAIN cards

\* ---------------------------------------------------------------------------
\* Reconnection on the shared client (checked under SpecShared)
\* ---------------------------------------------------------------------------

InReconnect(r) == shared.reqs[r].pc \in ReconnectSteps

OperationInFlight(r) == shared.reqs[r].pc = "operation"

\* C30: whenever a reconnect cycle started by ensureConnection is between its
\* disconnect and its final liveness check, no other reconnect cycle is in progress
\* and no database operation of another request is in flight on the client.
C30_ReconnectExclusive ==
  \A r \in Reqs, q \in Reqs :
    (r # q /\ InReconnect(r)) => (~InReconnect(q) /\ ~OperationInFlight(q))

====
